---- MODULE Spec2Model ----
(***************************************************************************)
(* Model of api_avl: the AVL tree of api_avl/model/avl_tree.py over the    *)
(* nodes of api_avl/model/node.py.                                         *)
(*                                                                         *)
(* Nodes are objects with identity: the heap maps a node id to the fields  *)
(* of the Node dataclass, a child link is a node id or None.  A node that  *)
(* is no longer referenced is reclaimed when the operation returns, and    *)
(* between operations the objects are named by the rank of their key, as   *)
(* nothing in the program depends on which object is which.                *)
(*                                                                         *)
(* The methods of the tree are operators that give the tree and the value  *)
(* a call leaves; ChildService and ChildController are built on them.  The *)
(* same methods are also given as steps of a call in progress (calls), for *)
(* what depends on how a call proceeds or on calls of several threads      *)
(* meeting on one tree; service holds ChildService._instance and the       *)
(* objects made by ChildService().                                         *)
(***************************************************************************)
EXTENDS Integers, FiniteSets, Sequences, TLC

\* ---- bounds of the model ----
MaxKey == 2
MaxNodes == 4
MaxName == 2
MaxStr == 2
AscendingCount == 7
MaxThreads == 2

\* ---- program constants ----
MIN_DOCUMENT == 0
MAX_DOCUMENT == 999999

None == 0

\* keys offered to the operations: a few valid ones and one on each side of
\* the accepted range
ValidKeys == (MIN_DOCUMENT..MaxKey) \cup {MAX_DOCUMENT}
Keys == ValidKeys \cup {MIN_DOCUMENT - 1, MAX_DOCUMENT + 1}
Names == 1..MaxName

\* the keys of test_delete_node_with_two_children
ExampleKeys == {20, 30, 40, 50, 70}

\* the first keys of test_large_tree_operations
AscendingKeys == {i * 100 : i \in 0..(AscendingCount - 1)}

\* object ids: as many as the largest tree of the model has nodes
TreeSizes == {MaxNodes, Cardinality(ExampleKeys), AscendingCount}
NodeIds == 1..(CHOOSE n \in TreeSizes : \A m \in TreeSizes : n >= m)

\* a child record as the callers build it: the 'document' field and one more;
\* a record whose document is out of range is never stored, one name is enough
ChildOf(k, nm) == [document |-> k, name |-> nm]
Children == {ChildOf(k, nm) : k \in ValidKeys, nm \in Names}
            \cup {ChildOf(k, 1) : k \in Keys \ ValidKeys}

\* the tree: heap, root, size; the calls in progress, one record per thread:
\* calls; the class attribute ChildService._instance and the objects made
\* for it: service; last and shadow record what was called
VARIABLES heap, root, size, last, shadow, calls, service

vars == <<heap, root, size, last, shadow, calls, service>>

Threads == 1..MaxThreads

Max(a, b) == IF a >= b THEN a ELSE b

\* ---- Node ----

\* nodes reachable from n over left/right links (a fixpoint, so that it is
\* defined on any heap)
RECURSIVE ReachFrom(_, _, _)
ReachFrom(h, seen, frontier) ==
    IF frontier = {} THEN seen
    ELSE LET nxt == {c \in UNION {{h[n].left, h[n].right} : n \in frontier} :
                        c # None /\ c \notin seen /\ c \notin frontier}
         IN ReachFrom(h, seen \cup frontier, nxt)

Reach(h, n) == IF n = None THEN {} ELSE ReachFrom(h, {}, {n})

\* the id a new object gets: any id not in use (the least, to keep the model small)
FreshId(h) == CHOOSE n \in NodeIds \ DOMAIN h : \A m \in NodeIds \ DOMAIN h : n <= m

\* faulty variant of Node: only the lower end of the range is checked
Node_no_upper_bound(h, document, data) ==
    IF document < MIN_DOCUMENT
    THEN [heap |-> h, node |-> None, exc |-> "ValueError: range"]
    ELSE LET n == FreshId(h) IN
         [heap |-> [m \in DOMAIN h \cup {n} |->
                       IF m = n THEN [document |-> document, data |-> data,
                                      left |-> None, right |-> None, height |-> 1]
                       ELSE h[m]],
          node |-> n, exc |-> "none"]

\* Node(document=document, data=data): __post_init__ rejects keys outside
\* 0..999999, otherwise the node is a leaf of height 1
Node(h, document, data) ==
    IF document < MIN_DOCUMENT \/ document > MAX_DOCUMENT
    THEN [heap |-> h, node |-> None, exc |-> "ValueError: range"]
    ELSE LET n == FreshId(h) IN
         [heap |-> [m \in DOMAIN h \cup {n} |->
                       IF m = n THEN [document |-> document, data |-> data,
                                      left |-> None, right |-> None, height |-> 1]
                       ELSE h[m]],
          node |-> n, exc |-> "none"]

\* ---- balancing ----

get_height(h, node) == IF node = None THEN 0 ELSE h[node].height

get_balance(h, node) ==
    IF node = None THEN 0
    ELSE get_height(h, h[node].left) - get_height(h, h[node].right)

\* node.height = 1 + max(get_height(node.left), get_height(node.right))
update_height(h, node) ==
    [h EXCEPT ![node].height =
        1 + Max(get_height(h, h[node].left), get_height(h, h[node].right))]

\* faulty variant of _rotate_left: the two heights are recomputed in the
\* wrong order, the promoted node first
_rotate_left_heights_swapped(h, z) ==
    LET y == h[z].right IN
    IF y = None THEN [heap |-> h, node |-> z]
    ELSE LET T2 == h[y].left
             h1 == [h EXCEPT ![y].left = z]
             h2 == [h1 EXCEPT ![z].right = T2]
             h3 == update_height(h2, y)
             h4 == update_height(h3, z)
         IN [heap |-> h4, node |-> y]

\* faulty variant of _rotate_left: the two heights are left as they were
_rotate_left_stale_heights(h, z) ==
    LET y == h[z].right IN
    IF y = None THEN [heap |-> h, node |-> z]
    ELSE LET T2 == h[y].left
             h1 == [h EXCEPT ![y].left = z]
             h2 == [h1 EXCEPT ![z].right = T2]
         IN [heap |-> h2, node |-> y]

_rotate_left(h, z) ==
    LET y == h[z].right IN
    IF y = None THEN [heap |-> h, node |-> z]
    ELSE LET T2 == h[y].left
             h1 == [h EXCEPT ![y].left = z]
             h2 == [h1 EXCEPT ![z].right = T2]
             h3 == update_height(h2, z)
             h4 == update_height(h3, y)
         IN [heap |-> h4, node |-> y]

\* faulty variant of _rotate_right: z.left = T3 is missing, so z keeps y as
\* its left child while y owns z
_rotate_right_aliased(h, z) ==
    LET y == h[z].left IN
    IF y = None THEN [heap |-> h, node |-> z]
    ELSE LET h1 == [h EXCEPT ![y].right = z]
             h3 == update_height(h1, z)
             h4 == update_height(h3, y)
         IN [heap |-> h4, node |-> y]

\* faulty variant of _rotate_right: z.left is cleared instead of being given
\* the subtree T3
_rotate_right_drops_T3(h, z) ==
    LET y == h[z].left IN
    IF y = None THEN [heap |-> h, node |-> z]
    ELSE LET h1 == [h EXCEPT ![y].right = z]
             h2 == [h1 EXCEPT ![z].left = None]
             h3 == update_height(h2, z)
             h4 == update_height(h3, y)
         IN [heap |-> h4, node |-> y]

_rotate_right(h, z) ==
    LET y == h[z].left IN
    IF y = None THEN [heap |-> h, node |-> z]
    ELSE LET T3 == h[y].right
             h1 == [h EXCEPT ![y].right = z]
             h2 == [h1 EXCEPT ![z].left = T3]
             h3 == update_height(h2, z)
             h4 == update_height(h3, y)
         IN [heap |-> h4, node |-> y]

\* ---- insert ----

\* faulty variant of insert_rebalance: the height is updated and no rotation
\* is applied
insert_rebalance_height_only(h0, node, document) ==
    [heap |-> update_height(h0, node), node |-> node]

\* faulty variant of insert_rebalance: the two zig-zag cases are answered
\* with the single rotation of the straight cases
insert_rebalance_single(h0, node, document) ==
    LET h == update_height(h0, node)
        balance == get_balance(h, node)
    IN IF balance > 1 THEN _rotate_right(h, node)
       ELSE IF balance < -1 THEN _rotate_left(h, node)
       ELSE [heap |-> h, node |-> node]

\* faulty variant of insert_rebalance: in the two double rotations the result
\* of the first rotation is not stored in the child link
insert_rebalance_unlinked(h0, node, document) ==
    LET h == update_height(h0, node)
        balance == get_balance(h, node)
        l == h[node].left
        r == h[node].right
    IN IF balance > 1 /\ l # None /\ document < h[l].document
       THEN _rotate_right(h, node)
       ELSE IF balance < -1 /\ r # None /\ document > h[r].document
       THEN _rotate_left(h, node)
       ELSE IF balance > 1 /\ l # None /\ document > h[l].document
       THEN _rotate_right(_rotate_left(h, l).heap, node)
       ELSE IF balance < -1 /\ r # None /\ document < h[r].document
       THEN _rotate_left(_rotate_right(h, r).heap, node)
       ELSE [heap |-> h, node |-> node]

\* faulty variant of insert_rebalance: the tests of the straight and of the
\* zig-zag case are exchanged on both sides
insert_rebalance_swapped(h0, node, document) ==
    LET h == update_height(h0, node)
        balance == get_balance(h, node)
        l == h[node].left
        r == h[node].right
    IN IF balance > 1 /\ l # None /\ document > h[l].document
       THEN _rotate_right(h, node)
       ELSE IF balance < -1 /\ r # None /\ document < h[r].document
       THEN _rotate_left(h, node)
       ELSE IF balance > 1 /\ l # None /\ document < h[l].document
       THEN LET a == _rotate_left(h, l)
            IN _rotate_right([a.heap EXCEPT ![node].left = a.node], node)
       ELSE IF balance < -1 /\ r # None /\ document > h[r].document
       THEN LET a == _rotate_right(h, r)
            IN _rotate_left([a.heap EXCEPT ![node].right = a.node], node)
       ELSE [heap |-> h, node |-> node]

\* the unwind part of _insert_recursive: height update and the four cases
insert_rebalance(h0, node, document) ==
    LET h == update_height(h0, node)
        balance == get_balance(h, node)
        l == h[node].left
        r == h[node].right
    IN IF balance > 1 /\ l # None /\ document < h[l].document
       THEN _rotate_right(h, node)
       ELSE IF balance < -1 /\ r # None /\ document > h[r].document
       THEN _rotate_left(h, node)
       ELSE IF balance > 1 /\ l # None /\ document > h[l].document
       THEN LET a == _rotate_left(h, l)
            IN _rotate_right([a.heap EXCEPT ![node].left = a.node], node)
       ELSE IF balance < -1 /\ r # None /\ document < h[r].document
       THEN LET a == _rotate_right(h, r)
            IN _rotate_left([a.heap EXCEPT ![node].right = a.node], node)
       ELSE [heap |-> h, node |-> node]

\* a frame of _insert_recursive returns the subtree b that the rebalancing
\* has left
returns_subtree(b) == [heap |-> b.heap, node |-> b.node, exc |-> "none"]

RECURSIVE _insert_recursive(_, _, _, _)
_insert_recursive(h, node, document, data) ==
    IF node = None THEN Node(h, document, data)
    ELSE IF document < h[node].document
    THEN LET r == _insert_recursive(h, h[node].left, document, data) IN
         IF r.exc # "none" THEN r
         ELSE returns_subtree(insert_rebalance([r.heap EXCEPT ![node].left = r.node],
                                               node, document))
    ELSE IF document > h[node].document
    THEN LET r == _insert_recursive(h, h[node].right, document, data) IN
         IF r.exc # "none" THEN r
         ELSE returns_subtree(insert_rebalance([r.heap EXCEPT ![node].right = r.node],
                                               node, document))
    ELSE [heap |-> h, node |-> None, exc |-> "ValueError: already exists"]

\* faulty variant of insert: the element count is raised before the
\* recursive insertion, so also when it raises
insert_counts_first(t, child) ==
    LET document == child.document
        r == _insert_recursive(t.heap, t.root, document, child)
    IN IF r.exc # "none"
       THEN [heap |-> r.heap, root |-> t.root, size |-> t.size + 1, exc |-> r.exc]
       ELSE [heap |-> r.heap, root |-> r.node, size |-> t.size + 1, exc |-> "none"]

\* lines 55-56 after _insert_recursive has left r: self._root = r.node and
\* self._size += 1, or the exception and nothing stored
insert_stores(t, r) ==
    IF r.exc # "none"
    THEN [heap |-> r.heap, root |-> t.root, size |-> t.size, exc |-> r.exc]
    ELSE [heap |-> r.heap, root |-> r.node, size |-> t.size + 1, exc |-> "none"]

\* AVLTree.insert on the tree t = [heap, root, size]; a raised exception
\* leaves root and size as they were when it was raised.  The child records
\* offered here carry an integer 'document', so neither the KeyError nor the
\* string conversion of lines 43-53 is taken.
insert(t, child) ==
    insert_stores(t, _insert_recursive(t.heap, t.root, child.document, child))

\* ---- search ----

RECURSIVE _search_recursive(_, _, _)
_search_recursive(h, node, document) ==
    IF node = None \/ h[node].document = document THEN node
    ELSE IF document < h[node].document
    THEN _search_recursive(h, h[node].left, document)
    ELSE _search_recursive(h, h[node].right, document)

NoData == [document |-> MIN_DOCUMENT - 2, name |-> 0]

search(t, document) ==
    LET node == _search_recursive(t.heap, t.root, document)
    IN IF node # None THEN t.heap[node].data ELSE NoData

\* ---- delete ----

\* faulty variant of _find_min: the subtree's root is taken for its minimum
_find_min_shallow(h, node) == node

\* faulty variant of _find_min: the walk stops at the parent of the minimum
RECURSIVE _find_min_parent(_, _)
_find_min_parent(h, node) ==
    IF h[node].left # None /\ h[h[node].left].left # None
    THEN _find_min_parent(h, h[node].left)
    ELSE node

\* faulty variant of _find_min: walks the right spine
RECURSIVE _find_min_rightmost(_, _)
_find_min_rightmost(h, node) ==
    IF h[node].right # None THEN _find_min_rightmost(h, h[node].right) ELSE node

RECURSIVE _find_min(_, _)
_find_min(h, node) ==
    IF h[node].left # None THEN _find_min(h, h[node].left) ELSE node

\* faulty variant of copy_successor: only the key is copied
copy_successor_key_only(h, node, successor) ==
    [h EXCEPT ![node].document = h[successor].document]

\* node.document = successor.document; node.data = successor.data
copy_successor(h, node, successor) ==
    LET h1 == [h EXCEPT ![node].document = h[successor].document]
    IN [h1 EXCEPT ![node].data = h1[successor].data]

\* faulty variant of splice: always the left child
splice_left(h, node) == h[node].left

\* the node that takes the place of a found node with at most one child
splice(h, node) ==
    IF h[node].left = None THEN h[node].right ELSE h[node].left

\* faulty variant of compensate: the increment is missing
compensate_missing(sz) == sz

\* self._size += 1 after the nested removal of the successor
compensate(sz) == sz + 1

\* faulty variant of delete_rebalance: the height is updated and no rotation
\* is applied
delete_rebalance_no_rotation(h0, node) ==
    [heap |-> update_height(h0, node), node |-> node]

\* faulty variant of delete_rebalance: rotates already at balance 1 and -1
delete_rebalance_eager(h0, node) ==
    LET h == update_height(h0, node)
        balance == get_balance(h, node)
    IN IF balance >= 1 /\ get_balance(h, h[node].left) >= 0
       THEN _rotate_right(h, node)
       ELSE IF balance >= 1 /\ get_balance(h, h[node].left) < 0
       THEN LET a == _rotate_left(h, h[node].left)
            IN _rotate_right([a.heap EXCEPT ![node].left = a.node], node)
       ELSE IF balance <= -1 /\ get_balance(h, h[node].right) <= 0
       THEN _rotate_left(h, node)
       ELSE IF balance <= -1 /\ get_balance(h, h[node].right) > 0
       THEN LET a == _rotate_right(h, h[node].right)
            IN _rotate_left([a.heap EXCEPT ![node].right = a.node], node)
       ELSE [heap |-> h, node |-> node]

\* the unwind part of _delete_recursive: height update and the four cases
delete_rebalance(h0, node) ==
    LET h == update_height(h0, node)
        balance == get_balance(h, node)
    IN IF balance > 1 /\ get_balance(h, h[node].left) >= 0
       THEN _rotate_right(h, node)
       ELSE IF balance > 1 /\ get_balance(h, h[node].left) < 0
       THEN LET a == _rotate_left(h, h[node].left)
            IN _rotate_right([a.heap EXCEPT ![node].left = a.node], node)
       ELSE IF balance < -1 /\ get_balance(h, h[node].right) <= 0
       THEN _rotate_left(h, node)
       ELSE IF balance < -1 /\ get_balance(h, h[node].right) > 0
       THEN LET a == _rotate_right(h, h[node].right)
            IN _rotate_left([a.heap EXCEPT ![node].right = a.node], node)
       ELSE [heap |-> h, node |-> node]

\* a frame of _delete_recursive returns the subtree b that the rebalancing
\* has left; sz is self._size then
returns_rebalanced(b, sz) == [heap |-> b.heap, size |-> sz, node |-> b.node]

RECURSIVE _delete_recursive(_, _, _, _)
_delete_recursive(h, sz, node, document) ==
    IF node = None THEN [heap |-> h, size |-> sz, node |-> None]
    ELSE IF document < h[node].document
    THEN LET r == _delete_recursive(h, sz, h[node].left, document)
         IN returns_rebalanced(
                delete_rebalance([r.heap EXCEPT ![node].left = r.node], node),
                r.size)
    ELSE IF document > h[node].document
    THEN LET r == _delete_recursive(h, sz, h[node].right, document)
         IN returns_rebalanced(
                delete_rebalance([r.heap EXCEPT ![node].right = r.node], node),
                r.size)
    ELSE IF h[node].left = None \/ h[node].right = None
    THEN [heap |-> h, size |-> sz - 1, node |-> splice(h, node)]
    ELSE LET successor == _find_min(h, h[node].right)
             h1 == copy_successor(h, node, successor)
             r == _delete_recursive(h1, sz - 1, h1[node].right,
                                    h1[successor].document)
         IN returns_rebalanced(
                delete_rebalance([r.heap EXCEPT ![node].right = r.node], node),
                compensate(r.size))

\* lines 169-170 after _delete_recursive has left r: self._root = r.node and
\* return self._size < initial_size
delete_returns(initial_size, r) ==
    [heap |-> r.heap, root |-> r.node, size |-> r.size,
     ret |-> (r.size < initial_size)]

delete(t, document) ==
    delete_returns(t.size, _delete_recursive(t.heap, t.size, t.root, document))

\* ---- the unwinding of insert and of delete, ancestor by ancestor ----

\* the four rebalancing actions on the node whose height was just updated
LeftLeft(h, node) == _rotate_right(h, node)

RightRight(h, node) == _rotate_left(h, node)

LeftRight(h, node) ==
    LET a == _rotate_left(h, h[node].left)
    IN _rotate_right([a.heap EXCEPT ![node].left = a.node], node)

RightLeft(h, node) ==
    LET a == _rotate_right(h, h[node].right)
    IN _rotate_left([a.heap EXCEPT ![node].right = a.node], node)

\* which of them the result b of a rebalancing at node is: b is what the code
\* returned and left behind, h the heap with the node's height updated
Applied(h, node, b) ==
    IF b = [heap |-> h, node |-> node] THEN "none"
    ELSE IF b = LeftLeft(h, node) THEN "LL"
    ELSE IF b = RightRight(h, node) THEN "RR"
    ELSE IF h[node].left # None /\ b = LeftRight(h, node) THEN "LR"
    ELSE IF h[node].right # None /\ b = RightLeft(h, node) THEN "RL"
    ELSE "other"

\* what _insert_recursive meets at the ancestor node once its child link is
\* set (heap h0): the balance factor after the height update, the action its
\* comparisons with the inserted key choose, and the action the table of
\* _delete_recursive chooses there
Visit(h0, node, document) ==
    LET h == update_height(h0, node)
    IN [key |-> h[node].document,
        balance |-> get_balance(h, node),
        chosen |-> Applied(h, node, insert_rebalance(h0, node, document)),
        table |-> Applied(h, node, delete_rebalance(h0, node))]

\* _insert_recursive with the list of the ancestors it visits while it
\* unwinds, the deepest first, and the number of nodes it has compared the
\* key with
RECURSIVE _insert_recursive_visits(_, _, _, _)
_insert_recursive_visits(h, node, document, data) ==
    IF node = None
    THEN LET n == Node(h, document, data)
         IN [heap |-> n.heap, node |-> n.node, exc |-> n.exc,
             path |-> << >>, depth |-> 0]
    ELSE IF document < h[node].document
    THEN LET r == _insert_recursive_visits(h, h[node].left, document, data) IN
         IF r.exc # "none" THEN [r EXCEPT !.depth = @ + 1]
         ELSE LET h0 == [r.heap EXCEPT ![node].left = r.node]
                  b == insert_rebalance(h0, node, document)
              IN [heap |-> b.heap, node |-> b.node, exc |-> "none",
                  path |-> Append(r.path, Visit(h0, node, document)),
                  depth |-> r.depth + 1]
    ELSE IF document > h[node].document
    THEN LET r == _insert_recursive_visits(h, h[node].right, document, data) IN
         IF r.exc # "none" THEN [r EXCEPT !.depth = @ + 1]
         ELSE LET h0 == [r.heap EXCEPT ![node].right = r.node]
                  b == insert_rebalance(h0, node, document)
              IN [heap |-> b.heap, node |-> b.node, exc |-> "none",
                  path |-> Append(r.path, Visit(h0, node, document)),
                  depth |-> r.depth + 1]
    ELSE [heap |-> h, node |-> None, exc |-> "ValueError: already exists",
          path |-> << >>, depth |-> 1]

\* _insert_recursive with lines 93-109 replaced by lines 216-232, the table
\* of _delete_recursive
RECURSIVE _insert_recursive_table(_, _, _, _)
_insert_recursive_table(h, node, document, data) ==
    IF node = None THEN Node(h, document, data)
    ELSE IF document < h[node].document
    THEN LET r == _insert_recursive_table(h, h[node].left, document, data) IN
         IF r.exc # "none" THEN r
         ELSE LET b == delete_rebalance([r.heap EXCEPT ![node].left = r.node], node)
              IN [heap |-> b.heap, node |-> b.node, exc |-> "none"]
    ELSE IF document > h[node].document
    THEN LET r == _insert_recursive_table(h, h[node].right, document, data) IN
         IF r.exc # "none" THEN r
         ELSE LET b == delete_rebalance([r.heap EXCEPT ![node].right = r.node], node)
              IN [heap |-> b.heap, node |-> b.node, exc |-> "none"]
    ELSE [heap |-> h, node |-> None, exc |-> "ValueError: already exists"]

\* _delete_recursive with what it does on the way: the nodes it is called
\* on, in the order of the calls; the branch taken at each node where the key
\* is found ("one" for lines 196-199, "two" for lines 201-207); and the nodes
\* whose place in the tree is given to their child
RECURSIVE _delete_recursive_visits(_, _, _, _)
_delete_recursive_visits(h, sz, node, document) ==
    IF node = None
    THEN [heap |-> h, size |-> sz, node |-> None,
          visited |-> << >>, branch |-> << >>, out |-> << >>]
    ELSE IF document < h[node].document
    THEN LET r == _delete_recursive_visits(h, sz, h[node].left, document)
             b == delete_rebalance([r.heap EXCEPT ![node].left = r.node], node)
         IN [heap |-> b.heap, size |-> r.size, node |-> b.node,
             visited |-> <<node>> \o r.visited, branch |-> r.branch, out |-> r.out]
    ELSE IF document > h[node].document
    THEN LET r == _delete_recursive_visits(h, sz, h[node].right, document)
             b == delete_rebalance([r.heap EXCEPT ![node].right = r.node], node)
         IN [heap |-> b.heap, size |-> r.size, node |-> b.node,
             visited |-> <<node>> \o r.visited, branch |-> r.branch, out |-> r.out]
    ELSE IF h[node].left = None \/ h[node].right = None
    THEN [heap |-> h, size |-> sz - 1, node |-> splice(h, node),
          visited |-> <<node>>, branch |-> <<"one">>, out |-> <<node>>]
    ELSE LET successor == _find_min(h, h[node].right)
             h1 == copy_successor(h, node, successor)
             r == _delete_recursive_visits(h1, sz - 1, h1[node].right,
                                           h1[successor].document)
             b == delete_rebalance([r.heap EXCEPT ![node].right = r.node], node)
         IN [heap |-> b.heap, size |-> compensate(r.size), node |-> b.node,
             visited |-> <<node>> \o r.visited,
             branch |-> <<"two">> \o r.branch, out |-> r.out]

\* ---- traversal ----

RECURSIVE _in_order_recursive(_, _, _)
_in_order_recursive(h, node, result) ==
    IF node # None
    THEN LET r1 == _in_order_recursive(h, h[node].left, result)
             r2 == Append(r1, h[node].data)
         IN _in_order_recursive(h, h[node].right, r2)
    ELSE result

in_order(t) == _in_order_recursive(t.heap, t.root, << >>)

\* ---- methods that only read ----

\* what a method leaves behind that assigns to no field of the tree or of a
\* node: the tree as it was, and the value it returns
Query(t, value) ==
    [heap |-> t.heap, root |-> t.root, size |-> t.size, ret |-> value]

RECURSIVE _pre_order_recursive(_, _, _)
_pre_order_recursive(h, node, result) ==
    IF node # None
    THEN LET r1 == Append(result, h[node].data)
             r2 == _pre_order_recursive(h, h[node].left, r1)
         IN _pre_order_recursive(h, h[node].right, r2)
    ELSE result

pre_order(t) == Query(t, _pre_order_recursive(t.heap, t.root, << >>))

\* faulty variant of _post_order_recursive: the node is appended between its
\* subtrees, as in _in_order_recursive
RECURSIVE _post_order_recursive_node_between(_, _, _)
_post_order_recursive_node_between(h, node, result) ==
    IF node # None
    THEN LET r1 == _post_order_recursive_node_between(h, h[node].left, result)
             r2 == Append(r1, h[node].data)
         IN _post_order_recursive_node_between(h, h[node].right, r2)
    ELSE result

RECURSIVE _post_order_recursive(_, _, _)
_post_order_recursive(h, node, result) ==
    IF node # None
    THEN LET r1 == _post_order_recursive(h, h[node].left, result)
             r2 == _post_order_recursive(h, h[node].right, r1)
         IN Append(r2, h[node].data)
    ELSE result

post_order(t) == Query(t, _post_order_recursive(t.heap, t.root, << >>))

\* size() and __len__
tree_size(t) == Query(t, t.size)

is_empty(t) == Query(t, t.root = None)

get_root(t) ==
    Query(t, IF t.root # None THEN t.heap[t.root].data ELSE NoData)

\* faulty variant of get_min: one step to the left instead of the walk of
\* _find_min
get_min_one_step(t) ==
    IF t.root = None THEN Query(t, NoData)
    ELSE LET l == t.heap[t.root].left
         IN Query(t, t.heap[IF l # None THEN l ELSE t.root].data)

get_min(t) ==
    IF t.root = None THEN Query(t, NoData)
    ELSE LET min_node == _find_min(t.heap, t.root)
         IN Query(t, t.heap[min_node].data)

\* while current.right is not None: current = current.right
RECURSIVE get_max_loop(_, _)
get_max_loop(h, current) ==
    IF h[current].right # None THEN get_max_loop(h, h[current].right)
    ELSE current

\* faulty variant of get_max: the walk moves the tree's root field instead of
\* a local cursor
get_max_moving_root(t) ==
    IF t.root = None THEN Query(t, NoData)
    ELSE LET current == get_max_loop(t.heap, t.root)
         IN [heap |-> t.heap, root |-> current, size |-> t.size,
             ret |-> t.heap[current].data]

get_max(t) ==
    IF t.root = None THEN Query(t, NoData)
    ELSE LET current == get_max_loop(t.heap, t.root)
         IN Query(t, t.heap[current].data)

\* document in tree
contains(t, document) == Query(t, search(t, document) # NoData)

\* ---- documents given as strings ----

\* a 'document' as a caller passes it: an int or a str.  The strings are
\* those of up to MaxStr characters over a digit and a letter.
StrChars == {"1", "a"}
Digits == {"1"}

IntKey(i) == [kind |-> "int", int |-> i, str |-> << >>]
StrKey(s) == [kind |-> "str", int |-> 0, str |-> s]

Strings == UNION {[1..m -> StrChars] : m \in 0..MaxStr}

\* the value of a string of decimal digits
RECURSIVE DigitsValue(_, _)
DigitsValue(s, acc) ==
    IF s = << >> THEN acc
    ELSE DigitsValue(Tail(s), 10 * acc + (IF Head(s) = "1" THEN 1 ELSE 0))

\* faulty variant of to_int: the leading digits are converted and the rest
\* of the string is ignored
to_int_leading_digits(s) ==
    IF s # << >> /\ s[1] \in Digits
    THEN LET n == CHOOSE i \in 1..Len(s) :
                     /\ \A j \in 1..i : s[j] \in Digits
                     /\ i = Len(s) \/ s[i + 1] \notin Digits
         IN [ok |-> TRUE, value |-> DigitsValue(SubSeq(s, 1, n), 0)]
    ELSE [ok |-> FALSE, value |-> 0]

\* int(document) for a str: the value of a non-empty string of digits, and
\* ValueError (ok = FALSE) for the empty string and for a string with
\* another character in it
to_int(s) ==
    IF s # << >> /\ \A i \in 1..Len(s) : s[i] \in Digits
    THEN [ok |-> TRUE, value |-> DigitsValue(s, 0)]
    ELSE [ok |-> FALSE, value |-> 0]

NumericStrings == {s \in Strings : to_int(s).ok}

\* the ints offered next to the strings: the values of the numeric strings
\* and one more
RawInts == {MIN_DOCUMENT} \cup {to_int(s).value : s \in NumericStrings}

RawKeys == {IntKey(i) : i \in RawInts} \cup {StrKey(s) : s \in Strings}

\* the records offered to insert: one per document, and one without the
\* 'document' key
RawChild(d) == [document |-> d, name |-> 1]
NoDocument == [name |-> 1]
RawChildren == {RawChild(d) : d \in RawKeys} \cup {NoDocument}

\* None, where the payloads carry a document as the caller passed it
NoRaw == RawChild([kind |-> "none", int |-> 0, str |-> << >>])

\* AVLTree.insert from its first line on
insert_raw(t, child) ==
    LET fails(e) == [heap |-> t.heap, root |-> t.root, size |-> t.size, exc |-> e]
        converted(document) ==
            insert_stores(t, _insert_recursive(t.heap, t.root, document, child))
    IN IF "document" \notin DOMAIN child THEN fails("KeyError")
       ELSE IF child.document.kind = "str"
       THEN LET c == to_int(child.document.str)
            IN IF c.ok THEN converted(c.value)
               ELSE fails("ValueError: cannot be converted")
       ELSE converted(child.document.int)

\* AVLTree.search from its first line on
search_raw(t, document) ==
    LET found(d) == LET node == _search_recursive(t.heap, t.root, d)
                    IN Query(t, IF node # None THEN t.heap[node].data ELSE NoRaw)
    IN IF document.kind = "str"
       THEN LET c == to_int(document.str)
            IN IF c.ok THEN found(c.value) ELSE Query(t, NoRaw)
       ELSE found(document.int)

\* AVLTree.delete from its first line on
delete_raw(t, document) ==
    IF document.kind = "str"
    THEN LET c == to_int(document.str)
         IN IF c.ok THEN delete(t, c.value) ELSE Query(t, FALSE)
    ELSE delete(t, document.int)

\* AVLTree.__contains__
contains_raw(t, document) == Query(t, search_raw(t, document).ret # NoRaw)

\* ---- clear ----

\* faulty variant of clear: the element count is not reset
clear_keeps_size(t) == [heap |-> t.heap, root |-> None, size |-> t.size]

clear(t) == [heap |-> t.heap, root |-> None, size |-> 0]

\* ---- ChildService ----

\* the documents and names the service and the controller are called with
ServiceValid == {MIN_DOCUMENT, MIN_DOCUMENT + 1, MAX_DOCUMENT}
ServiceKeys == ServiceValid \cup {MIN_DOCUMENT - 1, MAX_DOCUMENT + 1}
ServiceNames == {1, 2}
ServiceChildren == {ChildOf(k, nm) : k \in ServiceValid, nm \in ServiceNames}

\* update dictionaries: {} and {'name': ..} as ChildUpdate.model_dump gives
\* them, and for direct callers of the service also some with a 'document'
EmptyUpdate == [f \in {} |-> 0]
FieldUpdates == {[name |-> nm] : nm \in ServiceNames}
DocumentUpdates ==
    {[document |-> MAX_DOCUMENT], [document |-> MIN_DOCUMENT, name |-> 2]}

\* {**existing_child, **update_data}
Merge(existing_child, update_data) ==
    [f \in DOMAIN existing_child \cup DOMAIN update_data |->
        IF f \in DOMAIN update_data THEN update_data[f] ELSE existing_child[f]]

\* faulty variant of with_document: the merged record keeps the document
\* that update_data gave it
with_document_unforced(updated_child, document) == updated_child

\* updated_child["document"] = document
with_document(updated_child, document) ==
    [updated_child EXCEPT !.document = document]

\* the outcome of a service method that passes on what the tree call r
\* left and raised, and returns value
Returning(r, value) ==
    [heap |-> r.heap, root |-> r.root, size |-> r.size,
     ret |-> value, exc |-> r.exc]

\* the tree a call has left, as the next call finds it
TreeOf(r) == [heap |-> r.heap, root |-> r.root, size |-> r.size]

ChildService_create_child(t, child_data) ==
    Returning(insert(t, child_data), child_data)

ChildService_get_child(t, document) == Query(t, search(t, document))

\* search, then delete and insert of the merged record; an exception of the
\* insert leaves the tree as the delete made it
ChildService_update_child(t, document, update_data) ==
    LET existing_child == search(t, document) IN
    IF existing_child = NoData
    THEN [heap |-> t.heap, root |-> t.root, size |-> t.size,
          ret |-> NoData, exc |-> "none"]
    ELSE LET updated_child ==
                 with_document(Merge(existing_child, update_data), document)
         IN Returning(insert(TreeOf(delete(t, document)), updated_child),
                      updated_child)

ChildService_delete_child(t, document) == delete(t, document)

\* ---- ChildController ----

HTTP_200_OK == 200
HTTP_201_CREATED == 201
HTTP_400_BAD_REQUEST == 400
HTTP_404_NOT_FOUND == 404
HTTP_500_INTERNAL_SERVER_ERROR == 500

\* what a request leaves behind: the tree, and the response with its status,
\* the kind of its detail and its body
Response(t, status, detail, body) ==
    [heap |-> t.heap, root |-> t.root, size |-> t.size,
     ret |-> [status |-> status, detail |-> detail, body |-> body]]

OutOfRange(t) ==
    Response(t, HTTP_400_BAD_REQUEST, "must be between 0 and 999999", NoData)

\* create_child after the service call r: the return and the except clauses
create_child_response(r) ==
    IF r.exc = "none" THEN Response(r, HTTP_201_CREATED, "", r.ret)
    ELSE IF r.exc = "ValueError: already exists"
    THEN Response(r, HTTP_400_BAD_REQUEST, "already exists", NoData)
    ELSE IF r.exc = "ValueError: range"
    THEN OutOfRange(r)
    ELSE IF r.exc = "KeyError"
    THEN Response(r, HTTP_400_BAD_REQUEST, "Missing required field", NoData)
    ELSE Response(r, HTTP_500_INTERNAL_SERVER_ERROR, "Internal server error", NoData)

ChildController_create_child(t, child) ==
    create_child_response(ChildService_create_child(t, child))

\* get_child after the service call r
get_child_response(r) ==
    IF r.ret = NoData
    THEN Response(r, HTTP_404_NOT_FOUND, "not found", NoData)
    ELSE Response(r, HTTP_200_OK, "", r.ret)

ChildController_get_child(t, document) ==
    IF document < 0 \/ document > 999999 THEN OutOfRange(t)
    ELSE get_child_response(ChildService_get_child(t, document))

\* update_child after the service call r
update_child_response(r) ==
    IF r.exc # "none"
    THEN Response(r, HTTP_500_INTERNAL_SERVER_ERROR, "Internal server error", NoData)
    ELSE IF r.ret = NoData
    THEN Response(r, HTTP_404_NOT_FOUND, "not found", NoData)
    ELSE Response(r, HTTP_200_OK, "", r.ret)

ChildController_update_child(t, document, update_dict) ==
    IF document < 0 \/ document > 999999 THEN OutOfRange(t)
    ELSE IF DOMAIN update_dict = {}
    THEN Response(t, HTTP_400_BAD_REQUEST, "No fields to update", NoData)
    ELSE update_child_response(ChildService_update_child(t, document, update_dict))

\* delete_child after the service call r
delete_child_response(r) ==
    IF ~r.ret
    THEN Response(r, HTTP_404_NOT_FOUND, "not found", NoData)
    ELSE Response(r, HTTP_200_OK, "deleted successfully", NoData)

\* faulty variant of ChildController_delete_child: the range check is missing
ChildController_delete_child_unchecked(t, document) ==
    delete_child_response(ChildService_delete_child(t, document))

ChildController_delete_child(t, document) ==
    IF document < 0 \/ document > 999999 THEN OutOfRange(t)
    ELSE delete_child_response(ChildService_delete_child(t, document))

\* ---- calls, one step at a time ----

\* A call in progress: the method (op) and where it stands (pc), the key it
\* was called with (key), the parameter 'document' of the running
\* _recursive call (doc) and the payload (data); the frames of the
\* recursion that wait for a call on a child (stack); the node the running
\* frame or loop looks at (cur); the node a finished frame has returned
\* (ret); the list a traversal accumulates (result); initial_size of delete
\* (tmp); and, once the call is over (pc = "done"), what it returns (value)
\* or raises (exc).
Idle ==
    [op |-> "idle", pc |-> "idle", key |-> MIN_DOCUMENT, doc |-> MIN_DOCUMENT,
     data |-> NoData, stack |-> << >>, cur |-> None, ret |-> None,
     result |-> << >>, tmp |-> 0, value |-> NoData, deleted |-> FALSE,
     exc |-> "none"]

\* the first thing a call of op does is to read its arguments
Begin(op, document, data) ==
    [Idle EXCEPT !.op = op, !.pc = "call", !.key = document, !.doc = document,
                 !.data = data]

\* a frame that has called itself on the child of node on one side; two
\* marks the frame of line 206
Frame(node, side, two) == [node |-> node, side |-> side, two |-> two]

Top(stack) == stack[Len(stack)]

Pop(stack) == SubSeq(stack, 1, Len(stack) - 1)

\* the outcome of a step: the tree and the call after it
Outcome(h, r, sz, th) == [heap |-> h, root |-> r, size |-> sz, th |-> th]

Same(t, th) == Outcome(t.heap, t.root, t.size, th)

\* a return to the caller: of a payload or None, of the list a traversal has
\* filled, of the truth value of delete
Returns(th, value) == [th EXCEPT !.pc = "done", !.stack = << >>, !.value = value]

ReturnsResult(th) == [th EXCEPT !.pc = "done", !.stack = << >>]

ReturnsBool(th, b) == [th EXCEPT !.pc = "done", !.stack = << >>, !.deleted = b]

\* an exception leaves every frame at once
Raises(th, exc) == [th EXCEPT !.pc = "done", !.stack = << >>, !.exc = exc]

\* the recursive call on the child of th.cur on one side
Descend(h, th, side) ==
    [th EXCEPT !.stack = Append(@, Frame(th.cur, side, FALSE)),
               !.cur = h[th.cur][side]]

\* insert: line 55 reads self._root and calls _insert_recursive; each frame
\* compares and calls itself (lines 76-85) or, when its call has returned,
\* sets its link, updates its height and rebalances (lines 81-111); then
\* line 55 stores the root and line 56 counts
insert_step(t, th) ==
    LET h == t.heap IN
    IF th.pc = "call" THEN Same(t, [th EXCEPT !.pc = "enter", !.cur = t.root])
    ELSE IF th.pc = "enter" THEN
        IF th.cur = None
        THEN LET n == Node(h, th.doc, th.data) IN
             IF n.exc # "none" THEN Same(t, Raises(th, n.exc))
             ELSE Outcome(n.heap, t.root, t.size,
                          [th EXCEPT !.pc = "return", !.ret = n.node])
        ELSE IF th.doc < h[th.cur].document THEN Same(t, Descend(h, th, "left"))
        ELSE IF th.doc > h[th.cur].document THEN Same(t, Descend(h, th, "right"))
        ELSE Same(t, Raises(th, "ValueError: already exists"))
    ELSE IF th.pc = "return" THEN
        IF th.stack = << >>
        THEN Outcome(h, th.ret, t.size, [th EXCEPT !.pc = "count"])
        ELSE LET f == Top(th.stack)
                 b == insert_rebalance([h EXCEPT ![f.node][f.side] = th.ret],
                                       f.node, th.doc)
             IN Outcome(b.heap, t.root, t.size,
                        [th EXCEPT !.stack = Pop(@), !.ret = b.node])
    ELSE Outcome(h, t.root, t.size + 1, Returns(th, NoData))

\* delete: lines 168-169 read the size and the root; a frame compares and
\* calls itself, or finds the key, counts down (line 193) and returns a child
\* or starts _find_min; the loop of _find_min; lines 204-206 copy the
\* successor and call on the right child; a frame whose call has returned
\* sets its link, counts up again if it is the frame of line 206, updates its
\* height and rebalances; line 169 stores the root and line 170 compares
delete_step(t, th) ==
    LET h == t.heap IN
    IF th.pc = "call"
    THEN Same(t, [th EXCEPT !.pc = "enter", !.cur = t.root, !.tmp = t.size])
    ELSE IF th.pc = "enter" THEN
        IF th.cur = None THEN Same(t, [th EXCEPT !.pc = "return", !.ret = None])
        ELSE IF th.doc < h[th.cur].document THEN Same(t, Descend(h, th, "left"))
        ELSE IF th.doc > h[th.cur].document THEN Same(t, Descend(h, th, "right"))
        ELSE IF h[th.cur].left = None \/ h[th.cur].right = None
        THEN Outcome(h, t.root, t.size - 1,
                     [th EXCEPT !.pc = "return", !.ret = splice(h, th.cur)])
        ELSE Outcome(h, t.root, t.size - 1,
                     [th EXCEPT !.pc = "find_min",
                                !.stack = Append(@, Frame(th.cur, "right", TRUE)),
                                !.cur = h[th.cur].right])
    ELSE IF th.pc = "find_min" THEN
        IF h[th.cur].left # None THEN Same(t, [th EXCEPT !.cur = h[th.cur].left])
        ELSE LET node == Top(th.stack).node
                 h1 == copy_successor(h, node, th.cur)
             IN Outcome(h1, t.root, t.size,
                        [th EXCEPT !.pc = "enter", !.doc = h1[th.cur].document,
                                   !.cur = h1[node].right])
    ELSE IF th.pc = "return" THEN
        IF th.stack = << >>
        THEN Outcome(h, th.ret, t.size, [th EXCEPT !.pc = "result"])
        ELSE LET f == Top(th.stack)
                 b == delete_rebalance([h EXCEPT ![f.node][f.side] = th.ret],
                                       f.node)
             IN Outcome(b.heap, t.root,
                        IF f.two THEN compensate(t.size) ELSE t.size,
                        [th EXCEPT !.stack = Pop(@), !.ret = b.node])
    ELSE Same(t, ReturnsBool(th, t.size < th.tmp))

\* search: _search_recursive returns the node or calls itself on a child; the
\* frames hand the node back unchanged
search_step(t, th) ==
    LET h == t.heap IN
    IF th.pc = "call" THEN Same(t, [th EXCEPT !.pc = "enter", !.cur = t.root])
    ELSE IF th.cur = None THEN Same(t, Returns(th, NoData))
    ELSE IF h[th.cur].document = th.doc THEN Same(t, Returns(th, h[th.cur].data))
    ELSE IF th.doc < h[th.cur].document THEN Same(t, Descend(h, th, "left"))
    ELSE Same(t, Descend(h, th, "right"))

\* extreme_step with a loop that tests the link and forgets to follow it
extreme_step_stays(t, th, side) ==
    LET h == t.heap IN
    IF th.pc = "call"
    THEN IF t.root = None THEN Same(t, Returns(th, NoData))
         ELSE Same(t, [th EXCEPT !.pc = "loop", !.cur = t.root])
    ELSE IF h[th.cur][side] # None THEN Same(t, th)
    ELSE Same(t, Returns(th, h[th.cur].data))

\* get_min and get_max: the test of the root, then the loop
extreme_step(t, th, side) ==
    LET h == t.heap IN
    IF th.pc = "call"
    THEN IF t.root = None THEN Same(t, Returns(th, NoData))
         ELSE Same(t, [th EXCEPT !.pc = "loop", !.cur = t.root])
    ELSE IF h[th.cur][side] # None THEN Same(t, [th EXCEPT !.cur = h[th.cur][side]])
    ELSE Same(t, Returns(th, h[th.cur].data))

\* faulty variant of append: the payload is put in front of the list
append_in_front(th, when, data) ==
    IF th.op = when THEN <<data>> \o th.result ELSE th.result

\* result.append(node.data), at the place of the traversal the call is
append(th, when, data) ==
    IF th.op = when THEN Append(th.result, data) ELSE th.result

\* in_order, pre_order and post_order: a frame appends before, between or
\* after its two calls
traversal_step(t, th) ==
    LET h == t.heap
        visit(when, node) == append(th, when, h[node].data)
    IN IF th.pc = "call"
       THEN Same(t, [th EXCEPT !.pc = "enter", !.cur = t.root, !.result = << >>])
       ELSE IF th.pc = "enter" THEN
           IF th.cur = None THEN Same(t, [th EXCEPT !.pc = "return"])
           ELSE Same(t, [th EXCEPT !.stack = Append(@, Frame(th.cur, "left", FALSE)),
                                   !.result = visit("pre_order", th.cur),
                                   !.cur = h[th.cur].left])
       ELSE IF th.stack = << >> THEN Same(t, ReturnsResult(th))
       ELSE LET f == Top(th.stack) IN
            IF f.side = "left"
            THEN Same(t, [th EXCEPT !.pc = "enter",
                                    !.stack = Append(Pop(@), Frame(f.node, "right", FALSE)),
                                    !.result = visit("in_order", f.node),
                                    !.cur = h[f.node].right])
            ELSE Same(t, [th EXCEPT !.stack = Pop(@),
                                    !.result = visit("post_order", f.node)])

\* clear_step without its second assignment
clear_step_keeps_count(t, th) ==
    IF th.pc = "call" THEN Outcome(t.heap, None, t.size, [th EXCEPT !.pc = "count"])
    ELSE Same(t, Returns(th, NoData))

\* clear: two assignments
clear_step(t, th) ==
    IF th.pc = "call" THEN Outcome(t.heap, None, t.size, [th EXCEPT !.pc = "count"])
    ELSE Outcome(t.heap, t.root, 0, Returns(th, NoData))

\* the next step of the call th on the tree t
step(t, th) ==
    IF th.op = "insert" THEN insert_step(t, th)
    ELSE IF th.op = "delete" THEN delete_step(t, th)
    ELSE IF th.op = "search" THEN search_step(t, th)
    ELSE IF th.op = "get_min" THEN extreme_step(t, th, "left")
    ELSE IF th.op = "get_max" THEN extreme_step(t, th, "right")
    ELSE IF th.op = "clear" THEN clear_step(t, th)
    ELSE traversal_step(t, th)

\* ---- requests to ChildService, one call of the tree at a time ----

\* the outcome of a call of the tree, with the call record of the request
After(r, th) == Outcome(r.heap, r.root, r.size, th)

\* self._tree.insert(..) has left r: return the record, or let the exception
\* through
Created(r, th) ==
    After(r, IF r.exc = "none" THEN Returns(th, th.data) ELSE Raises(th, r.exc))

\* return self._tree.delete(document)
Deleted(r, th) == After(r, ReturnsBool(th, r.ret))

\* update_child after its search: None, or the merged record and on to the
\* delete
Searched(t, th, existing_child) ==
    IF existing_child = NoData THEN Same(t, Returns(th, NoData))
    ELSE Same(t, [th EXCEPT !.pc = "delete",
                            !.data = with_document(Merge(existing_child, th.data),
                                                   th.key)])

\* the methods of ChildService that take more than one look at the tree or
\* change it; update_child is a search, a delete and an insert, and a thread
\* can be descheduled between them
request_step(t, th) ==
    IF th.op = "create_child" THEN Created(insert(t, th.data), th)
    ELSE IF th.op = "delete_child" THEN Deleted(delete(t, th.key), th)
    ELSE IF th.op = "clear_all" THEN After(clear(t), Returns(th, NoData))
    ELSE IF th.op = "get_all_children"
    THEN Same(t, ReturnsResult([th EXCEPT !.result = in_order(t)]))
    ELSE IF th.pc = "call" THEN Searched(t, th, search(t, th.key))
    ELSE IF th.pc = "delete"
    THEN After(delete(t, th.key), [th EXCEPT !.pc = "insert"])
    ELSE Created(insert(t, th.data), th)

\* ChildService._instance and the objects made for it, before the first call
NoService == [instance |-> None, objects |-> << >>, trees |-> << >>]

\* super().__new__(cls): one more object, which has no _tree yet
NewObject(sv) == [sv EXCEPT !.objects = Append(@, [tree |-> None])]

\* ChildService(): __new__, a line at a time.  Line 30 tests cls._instance;
\* line 31 makes an object and stores it in cls._instance; line 32 makes an
\* AVLTree and stores it in the _tree of the object cls._instance is then;
\* line 33 returns what cls._instance is then
ChildService_new(sv, th) ==
    IF th.pc = "call"
    THEN [service |-> sv,
          th |-> [th EXCEPT !.pc = IF sv.instance = None THEN "new" ELSE "return"]]
    ELSE IF th.pc = "new"
    THEN [service |-> [NewObject(sv) EXCEPT !.instance = Len(sv.objects) + 1],
          th |-> [th EXCEPT !.pc = "tree"]]
    ELSE IF th.pc = "tree"
    THEN [service |-> [sv EXCEPT !.trees = Append(@, {}),
                                 !.objects[sv.instance].tree = Len(sv.trees) + 1],
          th |-> [th EXCEPT !.pc = "return"]]
    ELSE [service |-> sv, th |-> [th EXCEPT !.pc = "done", !.ret = sv.instance]]

\* ---- the state machine ----

\* Objects that nothing references any more are reclaimed; the remaining ones
\* are renamed 1..n in the order of (document, old id).  A heap that the call
\* left as it was is in this form already.
Reclaim(h, r) ==
    LET R == Reach(h, r)
        doc == [n \in R |-> h[n].document]
        rank == [n \in R \cup {None} |->
                    IF n = None THEN None
                    ELSE 1 + Cardinality({m \in R : \/ doc[m] < doc[n]
                                                    \/ doc[m] = doc[n] /\ m < n})]
        old == [i \in 1..Cardinality(R) |-> CHOOSE n \in R : rank[n] = i]
    IN [heap |-> [i \in 1..Cardinality(R) |->
                     [h[old[i]] EXCEPT !.left = rank[@], !.right = rank[@]]],
        root |-> rank[r]]

Collect(h, r) ==
    IF h = heap /\ r = root THEN [heap |-> heap, root |-> root] ELSE Reclaim(h, r)

Tree == [heap |-> heap, root |-> root, size |-> size]

NoShadow == [k \in Keys \cup ExampleKeys \cup AscendingKeys |-> NoData]

\* what the last call was and what it met: the kind of node the key was found
\* in, whether that node was the root, and whether the call put another
\* object at the root by a rotation
Found(document) ==
    LET n == _search_recursive(heap, root, document) IN
    IF n = None THEN "absent"
    ELSE IF heap[n].left = None /\ heap[n].right = None THEN "leaf"
    ELSE IF heap[n].left = None \/ heap[n].right = None THEN "one"
    ELSE "two"

AtRoot(document) == root # None /\ heap[root].document = document

NoCall == [op |-> "init", key |-> MIN_DOCUMENT, ret |-> FALSE, exc |-> "none",
           pre |-> "absent", atroot |-> FALSE, rot |-> FALSE]

Init ==
    /\ heap = << >>
    /\ root = None
    /\ size = 0
    /\ last = NoCall
    /\ shadow = NoShadow
    /\ calls = [t \in Threads |-> Idle]
    /\ service = NoService

\* what a call tree.insert(child) with the outcome r leaves behind
AfterInsert(child, r) ==
    /\ heap' = Collect(r.heap, r.root).heap
    /\ root' = Collect(r.heap, r.root).root
    /\ size' = r.size
    /\ last' = [op |-> "insert", key |-> child.document,
                ret |-> FALSE, exc |-> r.exc,
                pre |-> Found(child.document),
                atroot |-> AtRoot(child.document),
                rot |-> (r.exc = "none" /\ root # None /\ r.root # root)]
    /\ shadow' = IF r.exc = "none"
                 THEN [shadow EXCEPT ![child.document] = child]
                 ELSE shadow
    /\ UNCHANGED <<calls, service>>

\* one call tree.insert(child)
InsertCall(child) == AfterInsert(child, insert(Tree, child))

\* what a call tree.delete(document) with the outcome r leaves behind; pre
\* is the kind of node the document was in
AfterDelete(document, r, pre) ==
    /\ heap' = Collect(r.heap, r.root).heap
    /\ root' = Collect(r.heap, r.root).root
    /\ size' = r.size
    /\ last' = [op |-> "delete", key |-> document, ret |-> r.ret,
                exc |-> "none",
                pre |-> pre,
                atroot |-> AtRoot(document),
                rot |-> /\ root # None
                        /\ r.root # root
                        /\ ~(AtRoot(document) /\ pre # "two")]
    /\ shadow' = IF r.ret THEN [shadow EXCEPT ![document] = NoData]
                 ELSE shadow
    /\ UNCHANGED <<calls, service>>

\* one call tree.delete(document)
DeleteCall(document) ==
    AfterDelete(document, delete(Tree, document), Found(document))

Insert ==
    \E child \in Children :
        /\ ~ /\ Cardinality(DOMAIN heap) >= MaxNodes
             /\ child.document \in ValidKeys
             /\ _search_recursive(heap, root, child.document) = None
        /\ InsertCall(child)

Delete == \E document \in Keys : DeleteCall(document)

Clear ==
    LET r == clear(Tree)
        c == Collect(r.heap, r.root) IN
    /\ heap' = c.heap
    /\ root' = c.root
    /\ size' = r.size
    /\ last' = [NoCall EXCEPT !.op = "clear"]
    /\ shadow' = NoShadow
    /\ UNCHANGED <<calls, service>>

Next == Insert \/ Delete \/ Clear

Spec == Init /\ [][Next]_vars

\* ---- the whole interface of the tree, on records of one name ----

\* the kind of node at the root
RootKind == IF root = None THEN "absent" ELSE Found(heap[root].document)

\* one call of a method whose outcome is r = [heap, root, size, ret]
QueryCall(op, document, r) ==
    /\ heap' = Collect(r.heap, r.root).heap
    /\ root' = Collect(r.heap, r.root).root
    /\ size' = r.size
    /\ last' = [NoCall EXCEPT !.op = op, !.key = document, !.ret = r.ret,
                              !.pre = Found(document)]
    /\ shadow' = shadow
    /\ UNCHANGED <<calls, service>>

QueryInsert ==
    \E k \in Keys :
        /\ ~ /\ Cardinality(DOMAIN heap) >= MaxNodes
             /\ k \in ValidKeys
             /\ _search_recursive(heap, root, k) = None
        /\ InsertCall(ChildOf(k, 1))

QueryClear ==
    LET r == clear(Tree)
        c == Collect(r.heap, r.root) IN
    /\ heap' = c.heap
    /\ root' = c.root
    /\ size' = r.size
    /\ last' = [NoCall EXCEPT !.op = "clear", !.pre = RootKind]
    /\ shadow' = NoShadow
    /\ UNCHANGED <<calls, service>>

Search == \E k \in Keys : QueryCall("search", k, Query(Tree, search(Tree, k)))

Contains == \E k \in Keys : QueryCall("contains", k, contains(Tree, k))

InOrder == QueryCall("in_order", MIN_DOCUMENT, Query(Tree, in_order(Tree)))

PreOrder == QueryCall("pre_order", MIN_DOCUMENT, pre_order(Tree))

PostOrder == QueryCall("post_order", MIN_DOCUMENT, post_order(Tree))

Size == QueryCall("size", MIN_DOCUMENT, tree_size(Tree))

IsEmpty == QueryCall("is_empty", MIN_DOCUMENT, is_empty(Tree))

GetRoot == QueryCall("get_root", MIN_DOCUMENT, get_root(Tree))

GetMin == QueryCall("get_min", MIN_DOCUMENT, get_min(Tree))

GetMax == QueryCall("get_max", MIN_DOCUMENT, get_max(Tree))

NextQuery ==
    \/ QueryInsert \/ Delete \/ QueryClear
    \/ Search \/ Contains \/ InOrder \/ PreOrder \/ PostOrder
    \/ Size \/ IsEmpty \/ GetRoot \/ GetMin \/ GetMax

SpecQuery == Init /\ [][NextQuery]_vars

\* ---- the tree called with documents as ints and as strings ----

\* what last.key holds after an insert of a record without 'document'
Missing == [kind |-> "missing", int |-> 0, str |-> << >>]

\* one call with the document as the caller passed it, with the tree it
\* leaves, the value it returns and the exception it raises
RawCall(op, document, t, ret, exc) ==
    /\ heap' = Collect(t.heap, t.root).heap
    /\ root' = Collect(t.heap, t.root).root
    /\ size' = t.size
    /\ last' = [NoCall EXCEPT !.op = op, !.key = document, !.ret = ret,
                              !.exc = exc]
    /\ shadow' = shadow
    /\ UNCHANGED <<calls, service>>

\* a call that has returned r.ret, and a call of insert, which returns
\* nothing and may have raised r.exc
RawReturned(op, document, r) == RawCall(op, document, r, r.ret, "none")

RawRaised(op, document, r) == RawCall(op, document, r, FALSE, r.exc)

RawInsert ==
    \E child \in RawChildren :
        RawRaised("insert",
                  IF "document" \in DOMAIN child THEN child.document ELSE Missing,
                  insert_raw(Tree, child))

RawSearch == \E d \in RawKeys : RawReturned("search", d, search_raw(Tree, d))

RawDelete == \E d \in RawKeys : RawReturned("delete", d, delete_raw(Tree, d))

RawContains == \E d \in RawKeys : RawReturned("contains", d, contains_raw(Tree, d))

NextString == RawInsert \/ RawSearch \/ RawDelete \/ RawContains

SpecString == Init /\ [][NextString]_vars

\* ---- requests to the controller and calls of the service ----

\* one call: the tree and the value r carries, the document and the argument
\* it was made with, and the kind of node the document was found in
ServiceCall(op, document, arg, r, exc) ==
    /\ heap' = Collect(r.heap, r.root).heap
    /\ root' = Collect(r.heap, r.root).root
    /\ size' = r.size
    /\ last' = [op |-> op, key |-> document, ret |-> r.ret, exc |-> exc,
                pre |-> Found(document), atroot |-> AtRoot(document),
                rot |-> FALSE, arg |-> arg]
    /\ shadow' = shadow
    /\ UNCHANGED <<calls, service>>

CreateChild ==
    \E child \in ServiceChildren :
        ServiceCall("POST", child.document, child,
                    ChildController_create_child(Tree, child), "none")

GetChild ==
    \E d \in ServiceKeys :
        ServiceCall("GET", d, EmptyUpdate, ChildController_get_child(Tree, d), "none")

UpdateChild ==
    \E d \in ServiceKeys, u \in FieldUpdates \cup {EmptyUpdate} :
        ServiceCall("PUT", d, u, ChildController_update_child(Tree, d, u), "none")

DeleteChild ==
    \E d \in ServiceKeys :
        ServiceCall("DELETE", d, EmptyUpdate,
                    ChildController_delete_child(Tree, d), "none")

\* a call on the service itself, which may have raised r.exc
ServiceRaised(op, document, arg, r) == ServiceCall(op, document, arg, r, r.exc)

ServiceUpdateChild ==
    \E d \in ServiceKeys, u \in FieldUpdates \cup DocumentUpdates :
        ServiceRaised("update_child", d, u, ChildService_update_child(Tree, d, u))

NextService ==
    CreateChild \/ GetChild \/ UpdateChild \/ DeleteChild \/ ServiceUpdateChild

SpecService == Init /\ [][NextService]_vars

\* ---- the calls of test_delete_node_with_two_children, in any order ----

ExampleInsert == \E k \in ExampleKeys : InsertCall(ChildOf(k, 1))

ExampleDelete == \E k \in ExampleKeys : DeleteCall(k)

NextExample == ExampleInsert \/ ExampleDelete

SpecExample == Init /\ [][NextExample]_vars

TypeOK == /\ DOMAIN heap \subseteq NodeIds
          /\ root \in DOMAIN heap \cup {None}
          /\ \A n \in DOMAIN heap :
                /\ heap[n].left \in DOMAIN heap \cup {None}
                /\ heap[n].right \in DOMAIN heap \cup {None}
                /\ heap[n].data \in Children
          /\ size \in Int
          /\ last.op \in {"init", "insert", "delete", "clear"}

\* ---- observations of a tree ----

Nodes(h, r) == Reach(h, r)

KeySet(h, r) == {h[n].document : n \in Reach(h, r)}

\* the height of a subtree as its links give it (an absent child has height 0)
RECURSIVE Height(_, _)
Height(h, n) ==
    IF n = None THEN 0 ELSE 1 + Max(Height(h, h[n].left), Height(h, h[n].right))

Abs(i) == IF i < 0 THEN -i ELSE i

InOrderKeys == [i \in 1..Len(in_order(Tree)) |-> in_order(Tree)[i].document]

\* ---- keys inserted in ascending order, as in test_large_tree_operations ----

\* an insert of a key above all stored ones
AscendingInsert ==
    \E k \in AscendingKeys :
        /\ \A n \in Nodes(heap, root) : heap[n].document < k
        /\ InsertCall(ChildOf(k, 1))

AscendingDelete == \E k \in AscendingKeys : DeleteCall(k)

NextAscending == AscendingInsert \/ AscendingDelete

SpecAscending == Init /\ [][NextAscending]_vars

\* ---- one caller, whose call runs step by step ----

KeyedMethods == {"insert", "delete", "search"}

Methods ==
    KeyedMethods \cup {"get_min", "get_max", "in_order", "pre_order", "post_order"}

\* the caller calls a method
BeginCall ==
    \E op \in Methods, k \in Keys :
        /\ calls[1].op = "idle"
        /\ op \notin KeyedMethods => k = MIN_DOCUMENT
        /\ ~ /\ op = "insert"
             /\ Cardinality(DOMAIN heap) >= MaxNodes
             /\ k \in ValidKeys
             /\ _search_recursive(heap, root, k) = None
        /\ calls' = [calls EXCEPT ![1] = Begin(op, k, ChildOf(k, 1))]
        /\ UNCHANGED <<heap, root, size, last, shadow, service>>

\* the call takes its next step
StepCall ==
    /\ calls[1].pc \notin {"idle", "done"}
    /\ heap' = step(Tree, calls[1]).heap
    /\ root' = step(Tree, calls[1]).root
    /\ size' = step(Tree, calls[1]).size
    /\ calls' = [calls EXCEPT ![1] = step(Tree, calls[1]).th]
    /\ UNCHANGED <<last, shadow, service>>

\* the call is over: the caller has its value or its exception, and the
\* nodes that nothing references any more are reclaimed
ReturnCall ==
    /\ calls[1].pc = "done"
    /\ heap' = Reclaim(heap, root).heap
    /\ root' = Reclaim(heap, root).root
    /\ calls' = [calls EXCEPT ![1] = Idle]
    /\ UNCHANGED <<size, last, shadow, service>>

NextSteps == BeginCall \/ StepCall \/ ReturnCall

\* ENABLED <<StepCall>>_vars as a predicate of the state: the call is running
\* and its next step changes something
StepChanges ==
    /\ calls[1].pc \notin {"idle", "done"}
    /\ step(Tree, calls[1]) # Same(Tree, calls[1])

\* WF_vars(StepCall), written out with StepChanges for ENABLED <<StepCall>>_vars
FairStepCall == []<>(~StepChanges) \/ []<><<StepCall>>_vars

\* a call that has started keeps running, for nothing in the interpreter
\* stops a thread for ever, and the caller takes the value it returns
SpecSteps == Init /\ [][NextSteps]_vars /\ FairStepCall /\ WF_vars(ReturnCall)

\* ---- callers on several threads, nothing between them and the tree ----

Mutations == {"insert", "delete", "clear"}

\* the two threads whose mutating calls meet
Mutators == {1, 2}

Running(t) == calls[t].op # "idle"

\* no node is its own descendant
Acyclic(h, r) ==
    \A n \in Reach(h, r) : n \notin Reach(h, h[n].left) \cup Reach(h, h[n].right)

\* ordering, cached heights, balance and the count of a tree whose links may
\* have been set by more than one call at a time
Sound(h, r, sz) ==
    /\ Acyclic(h, r)
    /\ \A n \in Reach(h, r) :
          /\ \A m \in Reach(h, h[n].left) : h[m].document < h[n].document
          /\ \A m \in Reach(h, h[n].right) : h[m].document > h[n].document
          /\ h[n].height = 1 + Max(get_height(h, h[n].left),
                                   get_height(h, h[n].right))
          /\ Abs(get_balance(h, n)) <= 1
    /\ sz = Cardinality(Reach(h, r))

\* a thread calls a method; last remembers that a call began while another
\* call was running
BeginOn(t, op, k) ==
    /\ ~Running(t)
    /\ calls' = [calls EXCEPT ![t] = Begin(op, k, ChildOf(k, 1))]
    /\ last' = IF \E u \in Threads \ {t} : Running(u)
               THEN [NoCall EXCEPT !.op = "overlap"]
               ELSE last
    /\ UNCHANGED <<heap, root, size, shadow, service>>

\* the thread that is scheduled executes the next step of its call
StepOn(t) ==
    /\ calls[t].pc \notin {"idle", "done"}
    /\ heap' = step(Tree, calls[t]).heap
    /\ root' = step(Tree, calls[t]).root
    /\ size' = step(Tree, calls[t]).size
    /\ calls' = [calls EXCEPT ![t] = step(Tree, calls[t]).th]
    /\ UNCHANGED <<last, shadow, service>>

\* every call that was started has returned
AllReturned ==
    /\ \E t \in Threads : Running(t)
    /\ \A t \in Threads : Running(t) => calls[t].pc = "done"

\* the threads are joined: no call holds a reference any more, the objects
\* nothing references are reclaimed, and last forgets the calls that left a
\* sound tree
Join ==
    /\ AllReturned
    /\ calls' = [t \in Threads |-> Idle]
    /\ heap' = Reclaim(heap, root).heap
    /\ root' = Reclaim(heap, root).root
    /\ last' = IF Sound(heap, root, size) THEN NoCall ELSE last
    /\ UNCHANGED <<size, shadow, service>>

\* the threads start in their order, each while the one before it is in its
\* call and the first on a tree at rest
Turn(t) ==
    IF t = 1 THEN \A u \in Threads : ~Running(u)
    ELSE Running(t - 1) /\ calls[t - 1].pc # "done"

\* a thread calls insert, delete or clear; a tree that calls have left
\* unsound is not used any further
BeginMutation ==
    \E t \in Mutators, op \in Mutations, k \in MIN_DOCUMENT..MaxKey :
        /\ op = "clear" => k = MIN_DOCUMENT
        /\ op = "insert" => Cardinality(DOMAIN heap) < MaxNodes
        /\ Turn(t)
        /\ t = 1 => Sound(heap, root, size)
        /\ BeginOn(t, op, k)

StepMutation == \E t \in Mutators : StepOn(t)

NextMutate == BeginMutation \/ StepMutation \/ Join

SpecMutate == Init /\ [][NextMutate]_vars

\* ---- traversals on several threads, no mutation running ----

Traversals == {"in_order", "pre_order", "post_order"}

\* a call with the outcome r, run to its end while no traversal is in
\* progress
AtRest(r) ==
    /\ \A t \in Threads : ~Running(t)
    /\ heap' = Collect(r.heap, r.root).heap
    /\ root' = Collect(r.heap, r.root).root
    /\ size' = r.size
    /\ UNCHANGED <<last, shadow, calls, service>>

\* an insert, run to its end while no traversal is in progress
InsertAtRest == \E k \in MIN_DOCUMENT..MaxKey : AtRest(insert(Tree, ChildOf(k, 1)))

\* a thread calls a traversal
BeginTraversal ==
    \E t \in Threads, op \in Traversals :
        /\ t > 1 => Running(t - 1)
        /\ BeginOn(t, op, MIN_DOCUMENT)

StepTraversal == \E t \in Threads : StepOn(t)

NextTraverse == InsertAtRest \/ BeginTraversal \/ StepTraversal \/ Join

SpecTraverse == Init /\ [][NextTraverse]_vars

\* ---- requests on the threads of the server's pool ----

Requests ==
    {"create_child", "update_child", "delete_child", "clear_all", "get_all_children"}

\* a request of thread t has made a call of the tree, with the outcome o;
\* after its last call the response is sent and the thread is free again
Served(t, o) ==
    /\ heap' = Collect(o.heap, o.root).heap
    /\ root' = Collect(o.heap, o.root).root
    /\ size' = o.size
    /\ calls' = [calls EXCEPT ![t] = IF o.th.pc = "done" THEN Idle ELSE o.th]
    /\ last' = NoCall
    /\ UNCHANGED <<shadow, service>>

\* a route function starts on a free thread of the pool and its service
\* method makes its first call of the tree
BeginRequest ==
    \E t \in Threads, op \in Requests, k \in MIN_DOCUMENT..(MIN_DOCUMENT + 1),
       nm \in Names :
        /\ ~Running(t)
        /\ op \in {"clear_all", "get_all_children"} => k = MIN_DOCUMENT /\ nm = 1
        /\ op = "delete_child" => nm = 1
        /\ Served(t, request_step(Tree, Begin(op, k, IF op = "update_child"
                                                     THEN [name |-> nm]
                                                     ELSE ChildOf(k, nm))))

\* update_child goes on with its delete and then its insert
StepRequest ==
    \E t \in Threads : Running(t) /\ Served(t, request_step(Tree, calls[t]))

\* GET /children/{document}: get_child is one search; last holds what it saw
\* until the next call of any request
GetChildRequest ==
    \E k \in MIN_DOCUMENT..(MIN_DOCUMENT + 1) :
        /\ last' = [NoCall EXCEPT !.op = "get_child", !.key = k,
                                  !.ret = (ChildService_get_child(Tree, k).ret # NoData)]
        /\ UNCHANGED <<heap, root, size, shadow, calls, service>>

NextRequests == BeginRequest \/ StepRequest \/ GetChildRequest

SpecRequests == Init /\ [][NextRequests]_vars

\* ---- ChildService() called from the threads of the server's pool ----

\* get_child_service(): a thread calls ChildService()
CallService ==
    \E t \in Threads :
        /\ ~Running(t)
        /\ calls' = [calls EXCEPT ![t] = Begin("ChildService", MIN_DOCUMENT, NoData)]
        /\ last' = NoCall
        /\ UNCHANGED <<heap, root, size, shadow, service>>

\* the next line of __new__
NewStep ==
    \E t \in Threads :
        /\ calls[t].op = "ChildService"
        /\ calls[t].pc # "done"
        /\ service' = ChildService_new(service, calls[t]).service
        /\ calls' = [calls EXCEPT ![t] = ChildService_new(service, calls[t]).th]
        /\ last' = NoCall
        /\ UNCHANGED <<heap, root, size, shadow>>

\* the documents in the tree of the object a thread was given; without a
\* _tree the access self._tree raises AttributeError
TreeOfObject(t) == service.objects[calls[t].ret].tree

\* the thread uses the object it was given for one create_child, and the
\* request is over
UseCreate ==
    \E t \in Threads, k \in MIN_DOCUMENT..(MIN_DOCUMENT + 1) :
        /\ calls[t].op = "ChildService" /\ calls[t].pc = "done"
        /\ calls' = [calls EXCEPT ![t] = Idle]
        /\ IF TreeOfObject(t) = None
           THEN /\ last' = [NoCall EXCEPT !.op = "create_child", !.key = k,
                                          !.exc = "AttributeError"]
                /\ UNCHANGED <<service, shadow>>
           ELSE IF k \in service.trees[TreeOfObject(t)]
           THEN /\ last' = [NoCall EXCEPT !.op = "create_child", !.key = k,
                                          !.exc = "ValueError: already exists"]
                /\ UNCHANGED <<service, shadow>>
           ELSE /\ last' = [NoCall EXCEPT !.op = "create_child", !.key = k]
                /\ service' = [service EXCEPT !.trees[TreeOfObject(t)] = @ \cup {k}]
                /\ shadow' = [shadow EXCEPT ![k] = ChildOf(k, 1)]
        /\ UNCHANGED <<heap, root, size>>

\* the thread uses the object it was given for one get_child
UseGet ==
    \E t \in Threads, k \in MIN_DOCUMENT..(MIN_DOCUMENT + 1) :
        /\ calls[t].op = "ChildService" /\ calls[t].pc = "done"
        /\ calls' = [calls EXCEPT ![t] = Idle]
        /\ last' = IF TreeOfObject(t) = None
                   THEN [NoCall EXCEPT !.op = "get_child", !.key = k,
                                       !.exc = "AttributeError"]
                   ELSE [NoCall EXCEPT !.op = "get_child", !.key = k,
                                       !.ret = (k \in service.trees[TreeOfObject(t)])]
        /\ UNCHANGED <<heap, root, size, shadow, service>>

\* the thread uses the object it was given for clear_all, as reset_tree does
UseClear ==
    \E t \in Threads :
        /\ calls[t].op = "ChildService" /\ calls[t].pc = "done"
        /\ calls' = [calls EXCEPT ![t] = Idle]
        /\ IF TreeOfObject(t) = None
           THEN /\ last' = [NoCall EXCEPT !.op = "clear_all", !.exc = "AttributeError"]
                /\ UNCHANGED <<service, shadow>>
           ELSE /\ last' = [NoCall EXCEPT !.op = "clear_all"]
                /\ service' = [service EXCEPT !.trees[TreeOfObject(t)] = {}]
                /\ shadow' = NoShadow
        /\ UNCHANGED <<heap, root, size>>

NextSingleton == CallService \/ NewStep \/ UseCreate \/ UseGet \/ UseClear

SpecSingleton == Init /\ [][NextSingleton]_vars

\* ---- C1 ----
\* C1: in every reachable state every node reachable from the root has
\* subtrees whose heights differ by at most 1, both by the heights the links
\* give and by the cached heights the balance factor is computed from.
C1_AVLBalance ==
    \A n \in Nodes(heap, root) :
        /\ Abs(Height(heap, heap[n].left) - Height(heap, heap[n].right)) <= 1
        /\ Abs(get_balance(heap, n)) <= 1

\* a delete has rotated another node to the root of the three nodes left
C1_Witness ==
    /\ last.op = "delete" /\ last.ret /\ last.rot
    /\ Cardinality(Nodes(heap, root)) = 3

\* ---- C2 ----
\* C2: in every reachable state the keys of a node's left subtree are smaller
\* and those of its right subtree larger than the node's key, and in_order()
\* lists the documents in strictly ascending order.
C2_BSTOrdering ==
    /\ \A n \in Nodes(heap, root) :
          /\ \A m \in Reach(heap, heap[n].left) :
                heap[m].document < heap[n].document
          /\ \A m \in Reach(heap, heap[n].right) :
                heap[m].document > heap[n].document
    /\ \A i \in 1..(Len(InOrderKeys) - 1) : InOrderKeys[i] < InOrderKeys[i + 1]

\* a two-children delete has overwritten a node of a tree that still has
\* three keys
C2_Witness ==
    /\ last.op = "delete" /\ last.ret /\ last.pre = "two"
    /\ Len(InOrderKeys) = 3

\* ---- C3 ----
\* C3: between operations size() equals the number of nodes reachable from
\* the root and the length of in_order().
C3_ElementCount ==
    /\ size = Cardinality(Nodes(heap, root))
    /\ size = Len(in_order(Tree))

\* a two-children delete (decrement twice, compensate once) has completed
C3_Witness ==
    /\ last.op = "delete" /\ last.ret /\ last.pre = "two"
    /\ size >= 2

\* ---- C4 ----
\* C4: search(k) returns the payload of the most recent successful insert of
\* k not followed by a successful delete(k) or a clear, and None otherwise.
C4_MapRefinement ==
    \A k \in Keys : search(Tree, k) = shadow[k]

\* a two-children delete has completed and a remaining key maps to a payload
\* other than its first one
C4_Witness ==
    /\ last.op = "delete" /\ last.ret /\ last.pre = "two"
    /\ \E k \in Keys : shadow[k] # NoData /\ shadow[k].name > 1
       /\ search(Tree, k) = shadow[k]

\* ---- C5 ----
\* C5: an insert of a key that is present raises the 'already exists'
\* ValueError and leaves shape, keys, payloads, cached heights and size as
\* they were.
C5_DuplicateRejected ==
    [][(last'.op = "insert" /\ _search_recursive(heap, root, last'.key) # None)
        => /\ last'.exc = "ValueError: already exists"
           /\ heap' = heap /\ root' = root /\ size' = size]_vars

\* a duplicate insert was rejected deep in a tree of three levels
C5_Witness ==
    /\ last.op = "insert" /\ last.exc = "ValueError: already exists"
    /\ ~last.atroot /\ last.pre = "leaf"
    /\ Height(heap, root) = 3

\* ---- C6 ----
\* C6: a delete of an absent key returns False and leaves shape, cached
\* heights, size and the in-order sequence as they were.
C6_DeleteAbsentUnchanged ==
    [][(last'.op = "delete" /\ _search_recursive(heap, root, last'.key) = None)
        => /\ ~last'.ret
           /\ heap' = heap /\ root' = root /\ size' = size
           /\ in_order(Tree)' = in_order(Tree)]_vars

\* a delete of an absent key has walked a tree of three levels
C6_Witness ==
    /\ last.op = "delete" /\ ~last.ret /\ last.pre = "absent"
    /\ Height(heap, root) = 3

\* ---- C7 ----
\* C7: delete returns True exactly when the key was present; then size()
\* drops by 1, search of the key returns None and the set of keys is the
\* previous one without the key.
C7_DeletePresent ==
    [][last'.op = "delete"
        => /\ last'.ret <=> (_search_recursive(heap, root, last'.key) # None)
           /\ last'.ret =>
                /\ size' = size - 1
                /\ search(Tree', last'.key) = NoData
                /\ KeySet(heap, root)' = KeySet(heap, root) \ {last'.key}
                /\ Cardinality(Nodes(heap, root))' =
                       Cardinality(Nodes(heap, root)) - 1]_vars

\* a root with two children has been deleted from a tree of four keys
C7_Witness ==
    /\ last.op = "delete" /\ last.ret
    /\ last.pre = "two" /\ last.atroot
    /\ size = 3

\* ---- C8 ----
\* C8: an insert of an absent key in 0..999999 succeeds, size() grows by 1,
\* one node is added, the set of keys is the previous one plus the key,
\* every previous key keeps its payload and is_empty() is False.
C8_InsertAbsent ==
    [][(/\ last'.op = "insert"
        /\ last'.key >= MIN_DOCUMENT /\ last'.key <= MAX_DOCUMENT
        /\ _search_recursive(heap, root, last'.key) = None)
        => /\ last'.exc = "none"
           /\ size' = size + 1
           /\ Cardinality(Nodes(heap, root))' = Cardinality(Nodes(heap, root)) + 1
           /\ KeySet(heap, root)' = KeySet(heap, root) \cup {last'.key}
           /\ \A k \in KeySet(heap, root) : search(Tree, k)' = search(Tree, k)
           /\ root' # None]_vars

\* an insert has succeeded with a rotation at the root
C8_Witness ==
    /\ last.op = "insert" /\ last.exc = "none" /\ last.rot
    /\ size = 3

\* ---- C9 ----
\* C9: in every reachable state every reachable node's cached height is
\* 1 + max of its children's cached heights (0 for an absent child), which
\* is the height its links give; a leaf has height 1.
C9_HeightCorrect ==
    \A n \in Nodes(heap, root) :
        /\ heap[n].height =
              1 + Max(get_height(heap, heap[n].left), get_height(heap, heap[n].right))
        /\ heap[n].height = Height(heap, n)
        /\ (heap[n].left = None /\ heap[n].right = None) => heap[n].height = 1

\* a two-children delete at the root was followed by a rotation there
C9_Witness ==
    /\ last.op = "delete" /\ last.ret /\ last.pre = "two" /\ last.rot
    /\ heap[root].height >= 2

\* ---- C10 ----
\* C10: in every reachable state the nodes reachable from the root form a
\* tree: the root has no parent, every other node is the child of exactly one
\* parent on exactly one side, no node is its own descendant, and no two
\* nodes hold the same key.
ParentLinks(h, r, n) ==
    {<<p, side>> \in Nodes(h, r) \X {"left", "right"} : h[p][side] = n}

C10_ExclusiveOwnership ==
    /\ \A n \in Nodes(heap, root) :
          /\ Cardinality(ParentLinks(heap, root, n)) = IF n = root THEN 0 ELSE 1
          /\ n \notin Reach(heap, heap[n].left) \cup Reach(heap, heap[n].right)
    /\ \A m, n \in Nodes(heap, root) :
          heap[m].document = heap[n].document => m = n

\* a two-children delete has removed the successor's node and rotated
C10_Witness ==
    /\ last.op = "delete" /\ last.ret /\ last.pre = "two" /\ last.rot
    /\ Cardinality(Nodes(heap, root)) >= 3

\* ---- C11 ----
\* the keys whose insert has succeeded and that were not deleted or cleared
Inserted == {k \in Keys : shadow[k] # NoData}

SetMin(S) == CHOOSE k \in S : \A j \in S : k <= j

SetMax(S) == CHOOSE k \in S : \A j \in S : k >= j

\* C11: after the insert that makes three keys, whichever of the six orders
\* they came in, the root holds the median key, its left child is a leaf with
\* the smallest key, its right child a leaf with the largest, and in_order()
\* lists the three keys ascending.
C11_ThreeKeyRotations ==
    (last.op = "insert" /\ last.exc = "none" /\ Cardinality(Inserted) = 3) =>
        LET lo == SetMin(Inserted)
            hi == SetMax(Inserted)
            mid == CHOOSE k \in Inserted : k # lo /\ k # hi
            l == heap[root].left
            r == heap[root].right
        IN /\ root # None /\ heap[root].document = mid
           /\ l # None /\ heap[l].document = lo
           /\ heap[l].left = None /\ heap[l].right = None
           /\ r # None /\ heap[r].document = hi
           /\ heap[r].left = None /\ heap[r].right = None
           /\ InOrderKeys = <<lo, mid, hi>>

\* the third key came last and in the middle: a double rotation has put it
\* at the root
C11_Witness ==
    /\ last.op = "insert" /\ last.exc = "none" /\ last.rot
    /\ Cardinality(Inserted) = 3
    /\ heap[root].document = last.key

\* ---- C12 ----
\* the node holding the smallest key above k
Successor(h, r, k) ==
    CHOOSE s \in Reach(h, r) :
        /\ h[s].document > k
        /\ \A m \in Reach(h, r) : h[m].document > k => h[s].document <= h[m].document

\* C12: a delete of a key found in a node with two children keeps that node,
\* gives it the key and the payload of the in-order successor (the minimum of
\* its right subtree), and removes the node the successor was in, leaving all
\* other nodes with their key and payload; and the delete of 30 from the tree
\* of 50, 30, 70, 20, 40 leaves root 50 with the left child 40 over 20 and
\* the in-order keys 20, 40, 50, 70.
C12_TwoChildrenDelete ==
    /\ \A k \in KeySet(heap, root) :
          Found(k) = "two" =>
              LET n == _search_recursive(heap, root, k)
                  s == Successor(heap, root, k)
                  r == delete(Tree, k)
                  after == Reach(r.heap, r.root)
              IN /\ s \in Reach(heap, heap[n].right)
                 /\ n \in after
                 /\ r.heap[n].document = heap[s].document
                 /\ r.heap[n].data = heap[s].data
                 /\ s \notin after
                 /\ after = Reach(heap, root) \ {s}
                 /\ \A m \in after \ {n} :
                       /\ r.heap[m].document = heap[m].document
                       /\ r.heap[m].data = heap[m].data
    /\ (/\ last.op = "delete" /\ last.key = 30 /\ last.ret
        /\ root # None /\ heap[root].document = 50
        /\ KeySet(heap, root) = {20, 40, 50, 70})
        => LET l == heap[root].left
           IN /\ l # None /\ heap[l].document = 40
              /\ heap[l].data = ChildOf(40, 1)
              /\ heap[l].left # None /\ heap[heap[l].left].document = 20
              /\ heap[l].right = None
              /\ InOrderKeys = <<20, 40, 50, 70>>

\* 30 was deleted from its two-children node below the root 50
C12_Witness ==
    /\ last.op = "delete" /\ last.key = 30 /\ last.ret
    /\ last.pre = "two" /\ ~last.atroot
    /\ root # None /\ heap[root].document = 50
    /\ InOrderKeys = <<20, 40, 50, 70>>

\* ---- C13 ----
\* the three orders, as the concatenation of the sequences of the subtrees
RECURSIVE LeftNodeRight(_, _)
LeftNodeRight(h, n) ==
    IF n = None THEN << >>
    ELSE LeftNodeRight(h, h[n].left) \o <<h[n].data>> \o LeftNodeRight(h, h[n].right)

RECURSIVE NodeLeftRight(_, _)
NodeLeftRight(h, n) ==
    IF n = None THEN << >>
    ELSE <<h[n].data>> \o NodeLeftRight(h, h[n].left) \o NodeLeftRight(h, h[n].right)

RECURSIVE LeftRightNode(_, _)
LeftRightNode(h, n) ==
    IF n = None THEN << >>
    ELSE LeftRightNode(h, h[n].left) \o LeftRightNode(h, h[n].right) \o <<h[n].data>>

\* every stored payload occurs exactly once in s, and nothing else does
EachPayloadOnce(s) ==
    /\ Len(s) = size
    /\ \A n \in Nodes(heap, root) :
          Cardinality({i \in 1..Len(s) : s[i] = heap[n].data}) = 1

\* C13: in every reachable tree in_order() lists left subtree, node, right
\* subtree, pre_order() node, left, right and post_order() left, right, node;
\* each holds every stored payload exactly once and has length size(); the
\* first element of pre_order() and the last of post_order() are the root's
\* payload; on the empty tree all three are empty; and a traversal that was
\* called has returned that sequence.
C13_TraversalOrders ==
    LET io == in_order(Tree)
        pr == pre_order(Tree).ret
        po == post_order(Tree).ret
    IN /\ io = LeftNodeRight(heap, root)
       /\ pr = NodeLeftRight(heap, root)
       /\ po = LeftRightNode(heap, root)
       /\ EachPayloadOnce(io) /\ EachPayloadOnce(pr) /\ EachPayloadOnce(po)
       /\ root # None => /\ pr[1] = heap[root].data
                         /\ po[Len(po)] = heap[root].data
       /\ root = None => io = << >> /\ pr = << >> /\ po = << >>
       /\ last.op = "in_order" => last.ret = io
       /\ last.op = "pre_order" => last.ret = pr
       /\ last.op = "post_order" => last.ret = po

\* post_order() was called on a tree of three levels, where the three orders
\* differ from each other
C13_Witness ==
    /\ last.op = "post_order" /\ Len(last.ret) = 4
    /\ Height(heap, root) = 3
    /\ in_order(Tree) # last.ret
    /\ pre_order(Tree).ret # last.ret
    /\ pre_order(Tree).ret # in_order(Tree)

\* ---- C14 ----
ReadingMethods ==
    {"search", "contains", "in_order", "pre_order", "post_order",
     "size", "is_empty", "get_root", "get_min", "get_max"}

\* C14: a call of search, in_order, pre_order, post_order, size, is_empty,
\* get_root, get_min, get_max or 'in' leaves the root, every node's key,
\* payload, links and height, and the element count as they were, and a
\* traversal called twice in a row returns the same sequence.
C14_ReadOnlyUnchanged ==
    [][last'.op \in ReadingMethods
        => /\ heap' = heap /\ root' = root /\ size' = size
           /\ (last.op \in Traversals /\ last'.op = last.op)
                 => last'.ret = last.ret]_vars

\* get_max() has walked down from the root of a tree of three levels
C14_Witness ==
    /\ last.op = "get_max" /\ Height(heap, root) = 3
    /\ last.ret # heap[root].data
    /\ size = 4

\* ---- C15 ----
\* C15: on a non-empty tree get_min() returns the payload stored under the
\* smallest key and get_max() the one under the largest key, the first and
\* the last element of in_order(), and get_root() the payload of the root
\* node; on the empty tree all three return None; and a call of one of them
\* has returned that value.
C15_MinMaxRoot ==
    LET io == in_order(Tree)
        mn == get_min(Tree).ret
        mx == get_max(Tree).ret
        rt == get_root(Tree).ret
    IN /\ root # None =>
            /\ mn = search(Tree, SetMin(KeySet(heap, root)))
            /\ mx = search(Tree, SetMax(KeySet(heap, root)))
            /\ mn = io[1] /\ mx = io[Len(io)]
            /\ rt = heap[root].data
            /\ mn # NoData /\ mx # NoData /\ rt # NoData
       /\ root = None => mn = NoData /\ mx = NoData /\ rt = NoData
       /\ last.op = "get_min" => last.ret = mn
       /\ last.op = "get_max" => last.ret = mx
       /\ last.op = "get_root" => last.ret = rt

\* get_min() has returned the payload of a node two levels below the root
C15_Witness ==
    /\ last.op = "get_min" /\ last.ret # NoData
    /\ heap[root].left # None /\ heap[heap[root].left].left # None
    /\ last.ret = heap[heap[heap[root].left].left].data

\* ---- C16 ----
\* what every reading method returns on a tree without elements
ReadsAsEmpty(t) ==
    /\ tree_size(t).ret = 0
    /\ is_empty(t).ret
    /\ get_root(t).ret = NoData
    /\ get_min(t).ret = NoData /\ get_max(t).ret = NoData
    /\ \A k \in Keys \cup ExampleKeys :
          search(t, k) = NoData /\ ~contains(t, k).ret
    /\ in_order(t) = << >>
    /\ pre_order(t).ret = << >>
    /\ post_order(t).ret = << >>

\* C16: after clear() size() is 0, is_empty() is True, get_root() is None,
\* every search returns None and every traversal is empty, no node is left
\* in the tree; an insert that follows with a key in 0..999999, stored before
\* or not, succeeds and makes a tree of one leaf; and the trees built
\* afterwards are balanced, ordered and counted like those of a fresh tree.
C16_Clear ==
    /\ [](last.op = "clear" =>
            /\ ReadsAsEmpty(Tree)
            /\ root = None /\ size = 0 /\ Nodes(heap, root) = {})
    /\ [][(/\ last.op = "clear" /\ last'.op = "insert"
           /\ last'.key >= MIN_DOCUMENT /\ last'.key <= MAX_DOCUMENT)
          => /\ last'.exc = "none"
             /\ size' = 1 /\ root' # None
             /\ search(Tree', last'.key) = ChildOf(last'.key, 1)
             /\ heap'[root'].height = 1]_vars
    /\ [](C1_AVLBalance /\ C2_BSTOrdering /\ C3_ElementCount
          /\ C9_HeightCorrect /\ C10_ExclusiveOwnership)

\* clear() has dropped a tree whose root had two children
C16_Witness ==
    /\ last.op = "clear" /\ last.pre = "two"
    /\ size = 0 /\ root = None

\* ---- C17 ----
InRange(k) == k >= MIN_DOCUMENT /\ k <= MAX_DOCUMENT

\* C17: an insert of a key below 0 or above 999999 raises the range
\* ValueError and leaves shape, keys, payloads, heights and size as they
\* were, however deep the key would have been placed; an insert of 0 or of
\* 999999 is not refused for its range and succeeds when the key is absent;
\* every key stored in a reachable tree lies in 0..999999.
C17_KeyRange ==
    /\ [][(last'.op = "insert" /\ ~InRange(last'.key))
          => /\ last'.exc = "ValueError: range"
             /\ heap' = heap /\ root' = root /\ size' = size]_vars
    /\ [][(last'.op = "insert" /\ last'.key \in {MIN_DOCUMENT, MAX_DOCUMENT})
          => /\ last'.exc # "ValueError: range"
             /\ _search_recursive(heap, root, last'.key) = None
                   => /\ last'.exc = "none"
                      /\ search(Tree', last'.key) # NoData]_vars
    /\ [](\A n \in Nodes(heap, root) :
             InRange(heap[n].document) /\ InRange(heap[n].data.document))

\* the key -1 was refused at the end of a left spine of three nodes
C17_Witness ==
    /\ last.op = "insert" /\ last.exc = "ValueError: range"
    /\ last.key = MIN_DOCUMENT - 1
    /\ KeySet(heap, root) = ValidKeys
    /\ heap[root].left # None /\ heap[heap[root].left].left # None

\* ---- C18 ----
\* the structure of a tree without the payloads
Shape(h, r) ==
    [n \in Reach(h, r) |-> [document |-> h[n].document, left |-> h[n].left,
                            right |-> h[n].right, height |-> h[n].height]]

\* a string that is a decimal numeral, and the number it writes
Numeral(s) == s # << >> /\ \A i \in 1..Len(s) : s[i] \in Digits

NonNumeric(d) == d.kind = "str" /\ ~Numeral(d.str)

\* C18: in every reachable tree a numeric string gives with insert, search,
\* delete and 'in' what its integer value gives: the same exception or the
\* same tree structure from insert, the same payload from search, the same
\* tree and result from delete, the same answer from 'in'; after a
\* successful insert of a string the search of its value finds the record
\* and an insert of its value is refused as a duplicate; a string that is
\* not numeric makes insert raise the conversion ValueError, search return
\* None, delete return False and 'in' answer False, and a record without
\* 'document' makes insert raise KeyError, each leaving the tree as it was.
C18_StringKeys ==
    /\ [](\A s \in {x \in Strings : Numeral(x)} :
            LET d == StrKey(s)
                i == IntKey(DigitsValue(s, 0))
                a == insert_raw(Tree, RawChild(d))
                b == insert_raw(Tree, RawChild(i))
            IN /\ a.exc = b.exc /\ a.size = b.size /\ a.root = b.root
               /\ Shape(a.heap, a.root) = Shape(b.heap, b.root)
               /\ search_raw(Tree, d) = search_raw(Tree, i)
               /\ delete_raw(Tree, d) = delete_raw(Tree, i)
               /\ contains_raw(Tree, d) = contains_raw(Tree, i))
    /\ []((last.op = "insert" /\ last.exc = "none" /\ last.key.kind = "str") =>
            LET i == IntKey(DigitsValue(last.key.str, 0))
            IN /\ Numeral(last.key.str)
               /\ search_raw(Tree, i).ret = RawChild(last.key)
               /\ contains_raw(Tree, i).ret
               /\ insert_raw(Tree, RawChild(i)).exc = "ValueError: already exists")
    /\ [][(last'.op # "init" /\ NonNumeric(last'.key))
          => /\ heap' = heap /\ root' = root /\ size' = size
             /\ last'.op = "insert" => last'.exc = "ValueError: cannot be converted"
             /\ last'.op = "search" => last'.ret = NoRaw
             /\ last'.op = "delete" => last'.ret = FALSE
             /\ last'.op = "contains" => last'.ret = FALSE]_vars
    /\ [][(last'.op = "insert" /\ last'.key = Missing)
          => /\ last'.exc = "KeyError"
             /\ heap' = heap /\ root' = root /\ size' = size]_vars

\* "11" was inserted into a tree that holds other keys, and is found under 11
C18_Witness ==
    /\ last.op = "insert" /\ last.exc = "none"
    /\ last.key = StrKey(<<"1", "1">>)
    /\ size >= 2
    /\ search_raw(Tree, IntKey(11)).ret = RawChild(last.key)

\* ---- C19 ----
\* C19: a call update_child(d, u) of the service on a stored d raises
\* nothing, leaves the set of keys and size() as they were and the in-order
\* keys ascending, stores under d the old record with the fields of u put
\* over it and 'document' set to d whatever u says, returns that record and
\* leaves the records of the other keys alone; on a d that is not stored it
\* returns None and leaves the tree as it was.
C19_UpdateChild ==
    [][last'.op = "update_child" =>
        LET d == last'.key
            u == last'.arg
            old == search(Tree, d)
            expected == [document |-> d,
                         name |-> IF "name" \in DOMAIN u THEN u.name ELSE old.name]
        IN IF old # NoData
           THEN /\ last'.exc = "none"
                /\ KeySet(heap, root)' = KeySet(heap, root)
                /\ size' = size
                /\ \A i \in 1..(Len(InOrderKeys') - 1) :
                      InOrderKeys'[i] < InOrderKeys'[i + 1]
                /\ search(Tree', d) = expected
                /\ last'.ret = expected
                /\ \A k \in KeySet(heap, root) \ {d} :
                      search(Tree', k) = search(Tree, k)
           ELSE /\ last'.ret = NoData /\ last'.exc = "none"
                /\ heap' = heap /\ root' = root /\ size' = size]_vars

\* the record in the two-children root was updated with a dictionary that
\* names another document
C19_Witness ==
    /\ last.op = "update_child" /\ last.pre = "two" /\ size = 3
    /\ "document" \in DOMAIN last.arg /\ last.arg.document # last.key
    /\ last.ret.document = last.key
    /\ search(Tree, last.key) = ChildOf(last.key, 2)

\* ---- C20 ----
Stored(k) == _search_recursive(heap, root, k) # None

TreeUnchanged == heap' = heap /\ root' = root /\ size' = size

\* the parts of the mapping that hold of every request
MappingOfAll ==
    /\ (last'.op = "POST" /\ Stored(last'.key))
          => /\ last'.ret.status = HTTP_400_BAD_REQUEST
             /\ last'.ret.detail = "already exists"
             /\ TreeUnchanged
    /\ (last'.op \in {"GET", "DELETE"} /\ InRange(last'.key) /\ ~Stored(last'.key))
          => last'.ret.status = HTTP_404_NOT_FOUND
    /\ (last'.op \in {"GET", "PUT", "DELETE"} /\ ~InRange(last'.key))
          => /\ last'.ret.status = HTTP_400_BAD_REQUEST
             /\ TreeUnchanged
    /\ (/\ last'.op \in {"POST", "GET", "PUT", "DELETE"}
        /\ \/ last'.op = "POST" /\ Stored(last'.key)
           \/ last'.op # "POST" /\ ~Stored(last'.key))
          => last'.ret.status \notin {HTTP_200_OK, HTTP_201_CREATED}

\* the statement as given: every update of an in-range document that is not
\* stored is answered 404
C20_AsStated ==
    [][/\ MappingOfAll
       /\ (last'.op = "PUT" /\ InRange(last'.key) /\ ~Stored(last'.key))
             => last'.ret.status = HTTP_404_NOT_FOUND]_vars

\* C20: a create of a stored document is answered 400 'already exists' with
\* the tree unchanged; get and delete of an in-range document that is not
\* stored are answered 404, and so is an update of it that names a field; an
\* update that names no field is answered 400 'No fields to update', stored
\* or not, with the tree unchanged; get, update and delete of a document
\* outside 0..999999 are answered 400 with the tree unchanged; none of these
\* is answered 200 or 201.
C20_HttpMapping ==
    [][/\ MappingOfAll
       /\ (/\ last'.op = "PUT" /\ InRange(last'.key) /\ ~Stored(last'.key)
           /\ DOMAIN last'.arg # {})
             => last'.ret.status = HTTP_404_NOT_FOUND
       /\ (last'.op = "PUT" /\ InRange(last'.key) /\ DOMAIN last'.arg = {})
             => /\ last'.ret.status = HTTP_400_BAD_REQUEST
                /\ last'.ret.detail = "No fields to update"
                /\ TreeUnchanged]_vars

\* an update without fields of a document that is in range and not stored
\* was answered 400
C20_Witness ==
    /\ last.op = "PUT" /\ last.pre = "absent" /\ InRange(last.key)
    /\ DOMAIN last.arg = {}
    /\ last.ret.status = HTTP_400_BAD_REQUEST
    /\ size >= 2

\* ---- C21 ----
\* the inserts offered to a tree of the example keys
ExampleChildren == {ChildOf(k, 1) : k \in ExampleKeys}

\* C21: in every reachable tree and for every insert, at each ancestor
\* visited while the insert unwinds the action chosen from the comparison of
\* the inserted key with the heavy child's key (LL, RR, LR, RL or none) is
\* the action the table of the delete path chooses from the balance factors,
\* and the insert with its case selection replaced by that table returns the
\* same tree, node for node.
C21_InsertAgreesWithTable ==
    \A child \in ExampleChildren :
        LET v == _insert_recursive_visits(heap, root, child.document, child)
            r == _insert_recursive(heap, root, child.document, child)
        IN /\ [heap |-> v.heap, node |-> v.node, exc |-> v.exc] = r
           /\ \A i \in DOMAIN v.path :
                 /\ v.path[i].chosen = v.path[i].table
                 /\ v.path[i].chosen \in {"LL", "RR", "LR", "RL", "none"}
           /\ _insert_recursive_table(heap, root, child.document, child) = r

\* the insert of 30 below 40 and 20 was answered with the double rotation at
\* 40, an ancestor under the root 50
C21_Witness ==
    /\ last.op = "insert" /\ last.exc = "none" /\ last.key = 30 /\ ~last.rot
    /\ size = 5 /\ heap[root].document = 50
    /\ heap[heap[root].left].document = 30
    /\ heap[heap[heap[root].left].left].document = 20
    /\ heap[heap[heap[root].left].right].document = 40

\* ---- C22 ----
\* the ancestors at which an insert with the visits P applied a rotation
Rebalanced(P) == {i \in DOMAIN P : P[i].chosen # "none"}

\* C22: in every reachable tree and for every insert that succeeds, at most
\* one of the ancestors visited while it unwinds is answered with a
\* rebalancing action, a single or a double rotation; that ancestor is the
\* only one found with a balance factor beyond 1 or -1, and every ancestor
\* above it is found with a balance factor of at most 1 in absolute value.
C22_OneRebalancingPerInsert ==
    \A child \in ExampleChildren :
        LET v == _insert_recursive_visits(heap, root, child.document, child)
            P == v.path
        IN /\ [heap |-> v.heap, node |-> v.node, exc |-> v.exc]
                = _insert_recursive(heap, root, child.document, child)
           /\ v.exc = "none" =>
                /\ Cardinality(Rebalanced(P)) <= 1
                /\ \A i \in DOMAIN P :
                      /\ P[i].chosen \in {"LL", "RR", "LR", "RL", "none"}
                      /\ (Abs(P[i].balance) > 1) <=> (i \in Rebalanced(P))
                      /\ Abs(P[i].balance) <= 2
                /\ \A i \in Rebalanced(P) : \A j \in DOMAIN P :
                      j > i => Abs(P[j].balance) <= 1 /\ P[j].chosen = "none"

\* the insert of 70 was answered with one rotation at 40, and the root 30
\* above it was left alone
C22_Witness ==
    /\ last.op = "insert" /\ last.exc = "none" /\ last.key = 70 /\ ~last.rot
    /\ size = 5 /\ heap[root].document = 30
    /\ heap[heap[root].right].document = 50
    /\ heap[heap[heap[root].right].left].document = 40
    /\ heap[heap[heap[root].right].right].document = 70
    /\ Abs(get_balance(heap, root)) <= 1

\* ---- C23 ----
\* C23: in every reachable tree a delete of a stored key takes the
\* zero-or-one-child branch exactly once, at the node of the key or, when
\* that node has two children, in the nested call for the in-order
\* successor, which is found in a node without a left child, so that the
\* two-children branch is entered at most once; exactly one node leaves the
\* tree and the element count is lower by exactly 1 when delete returns; a
\* delete of a key that is not stored takes no branch and removes nothing.
C23_SingleStructuralRemoval ==
    \A k \in ExampleKeys :
        LET v == _delete_recursive_visits(heap, size, root, k)
            d == delete(Tree, k)
            n == _search_recursive(heap, root, k)
        IN /\ [heap |-> v.heap, size |-> v.size, node |-> v.node]
                = _delete_recursive(heap, size, root, k)
           /\ n = None => /\ v.branch = << >> /\ v.out = << >>
                          /\ d.size = size /\ ~d.ret
           /\ n # None =>
                /\ v.branch \in {<<"one">>, <<"two", "one">>}
                /\ Len(v.out) = 1
                /\ Reach(d.heap, d.root) = Reach(heap, root) \ {v.out[1]}
                /\ d.size = size - 1 /\ d.ret
                /\ Found(k) # "two" => v.branch = <<"one">> /\ v.out[1] = n
                /\ Found(k) = "two" =>
                      LET s == _find_min(heap, heap[n].right)
                      IN /\ v.branch = <<"two", "one">>
                         /\ heap[s].left = None
                         /\ v.out[1] = s /\ s # n

\* the root 40 with two children was deleted from a tree of five keys: the
\* root now holds the successor 50 and one node is gone
C23_Witness ==
    /\ last.op = "delete" /\ last.key = 40 /\ last.ret
    /\ last.pre = "two" /\ last.atroot
    /\ size = 4 /\ heap[root].document = 50
    /\ Cardinality(Nodes(heap, root)) = 4

\* ---- C24 ----
\* the keys of the subtree of n, left subtree first, then n, then the right
RECURSIVE KeysLeftNodeRight(_, _)
KeysLeftNodeRight(h, n) ==
    IF n = None THEN << >>
    ELSE KeysLeftNodeRight(h, h[n].left) \o <<h[n].document>>
         \o KeysLeftNodeRight(h, h[n].right)

\* r is the rotation of z in the heap h that promotes z's child y on the
\* side 'from' and hands y's subtree on the side 'to' over to z
IsRotation(h, z, r, from, to) ==
    LET y == h[z][from] IN
    IF y = None THEN r = [heap |-> h, node |-> z]
    ELSE /\ r.node = y
         /\ DOMAIN r.heap = DOMAIN h
         /\ r.heap[y][to] = z
         /\ r.heap[z][from] = h[y][to]
         /\ r.heap[y][from] = h[y][from]
         /\ r.heap[z][to] = h[z][to]
         /\ \A n \in DOMAIN h :
               /\ r.heap[n].document = h[n].document
               /\ r.heap[n].data = h[n].data
               /\ n \notin {y, z} => r.heap[n] = h[n]
         /\ Reach(r.heap, y) = Reach(h, z)
         /\ KeysLeftNodeRight(r.heap, y) = KeysLeftNodeRight(h, z)
         /\ LeftNodeRight(r.heap, y) = LeftNodeRight(h, z)
         /\ r.heap[z].height = 1 + Max(get_height(h, h[z][to]),
                                       get_height(h, h[y][to]))
         /\ r.heap[z].height = Height(r.heap, z)
         /\ r.heap[y].height = 1 + Max(r.heap[z].height,
                                       get_height(h, h[y][from]))
         /\ r.heap[y].height = Height(r.heap, y)

\* C24: for every node z of a reachable tree, _rotate_left(z) returns z's
\* right child y with y.left = z and z.right = the old left subtree of y, and
\* _rotate_right(z) the mirror image; no other link, key or payload changes,
\* the nodes and the in-order key sequence of the subtree are the same, the
\* height of z and then that of y are those their children give, and when the
\* child to promote is absent z is returned with nothing changed.
C24_Rotations ==
    \A z \in Nodes(heap, root) :
        /\ IsRotation(heap, z, _rotate_left(heap, z), "right", "left")
        /\ IsRotation(heap, z, _rotate_right(heap, z), "left", "right")

\* the delete of 20 was answered with a left rotation of the root 30, whose
\* right child 50 has handed over its left subtree 40
C24_Witness ==
    /\ last.op = "delete" /\ last.key = 20 /\ last.ret /\ last.rot
    /\ size = 4 /\ heap[root].document = 50
    /\ heap[heap[root].left].document = 30
    /\ heap[heap[root].left].right # None
    /\ heap[heap[heap[root].left].right].document = 40
    /\ heap[heap[root].left].left = None

\* ---- C25 ----
\* the least number of nodes of a tree of height h whose subtrees differ by
\* at most 1 in height
RECURSIVE MinNodes(_)
MinNodes(h) ==
    IF h = 0 THEN 0
    ELSE IF h = 1 THEN 1
    ELSE 1 + MinNodes(h - 1) + MinNodes(h - 2)

\* the tree after tree.insert of the keys of s, one after the other
RECURSIVE InsertAll(_, _)
InsertAll(t, s) ==
    IF s = << >> THEN t
    ELSE LET r == insert(t, ChildOf(Head(s), 1))
         IN InsertAll([heap |-> r.heap, root |-> r.root, size |-> r.size], Tail(s))

EmptyTree == [heap |-> << >>, root |-> None, size |-> 0]

TwoFrame(stack) ==
    IF \E i \in 1..Len(stack) : stack[i].two
    THEN CHOOSE i \in 1..Len(stack) : stack[i].two
    ELSE 0

\* a call is on its way down: it has not started to unwind
Descending(th) ==
    /\ th.op \in KeyedMethods
    /\ th.pc \in {"enter", "find_min"}

\* the call descends at most height(root) levels, and what it descends into
\* after line 206 lies in the right subtree of the node the key was found in
DescentBounded(th) ==
    Descending(th) =>
        /\ Len(th.stack) + (IF th.cur = None THEN 0 ELSE 1) <= get_height(heap, root)
        /\ LET i == TwoFrame(th.stack) IN
           i # 0 =>
               LET below == Reach(heap, heap[th.stack[i].node].right) IN
               /\ th.cur \in below \cup {None}
               /\ \A j \in (i + 1)..Len(th.stack) : th.stack[j].node \in below

\* a call that runs stays the call of the method it began as, up to its return
KeepsMethod ==
    (calls[1].op \in Methods /\ calls[1].pc # "done") => calls'[1].op = calls[1].op

\* C26: every call of insert, search, delete, get_min, get_max and of a
\* traversal that starts on a reachable tree reaches its return; insert,
\* search and delete are never more than height(root) frames deep on their way
\* down, and after the successor was copied a delete is only in the right
\* subtree of the node it found the key in.
C26_Termination ==
    /\ [](calls[1].op = "idle" => C1_AVLBalance /\ C2_BSTOrdering /\ C3_ElementCount)
    /\ []DescentBounded(calls[1])
    /\ [][KeepsMethod]_vars
    /\ (calls[1].pc = "call") ~> (calls[1].pc = "done")

\* a delete of the key at the root, which has two children, has copied the
\* successor and has come down to the node it was copied from, three levels
\* down in a tree of height 3
C26_Witness ==
    LET th == calls[1] IN
    /\ th.op = "delete"
    /\ th.pc = "enter"
    /\ th.doc # th.key
    /\ TwoFrame(th.stack) = 1
    /\ Len(th.stack) = 2
    /\ get_height(heap, root) = 3
    /\ th.cur # None
    /\ heap[th.cur].document = th.doc

\* ---- C27 ----
\* C27: two calls of insert, delete or clear that run at the same time on one
\* tree, their assignments interleaved, can leave it unsound after both have
\* returned (a cycle, keys out of order, a wrong cached height, a key that was
\* inserted and is not there, a count that is not the number of nodes); calls
\* that run one after the other never do: whenever every started call has
\* returned and the tree is unsound, calls had overlapped.
C27_ConcurrentMutationCorrupts ==
    ((AllReturned \/ \A t \in Threads : ~Running(t)) /\ ~Sound(heap, root, size))
        => last.op = "overlap"

\* two inserts of different keys have both returned without an exception; one
\* of the keys is not in the tree, which has one node and the count 2
C27_Witness ==
    /\ AllReturned
    /\ last.op = "overlap"
    /\ calls[1].op = "insert" /\ calls[1].exc = "none"
    /\ calls[2].op = "insert" /\ calls[2].exc = "none"
    /\ calls[1].key # calls[2].key
    /\ {calls[1].key, calls[2].key} \ KeySet(heap, root) # {}
    /\ Cardinality(Reach(heap, root)) = 1
    /\ size = 2

\* ---- C28 ----

\* what a traversal returns when nothing else runs
Alone(op) ==
    IF op = "in_order" THEN in_order(Tree)
    ELSE IF op = "pre_order" THEN pre_order(Tree).ret
    ELSE post_order(Tree).ret

\* C28: when in_order, pre_order and post_order calls of several threads
\* interleave on a tree and no mutation runs, each call returns the list it
\* returns when run alone, and while a traversal is in progress no step
\* changes the root, a node or the count.
C28_ConcurrentTraversals ==
    /\ [](\A t \in Threads :
             (calls[t].op \in Traversals /\ calls[t].pc = "done")
                 => calls[t].result = Alone(calls[t].op))
    /\ [][(\E t \in Threads : Running(t)) => UNCHANGED <<heap, root, size>>]_vars

\* in_order of the first thread has returned the three payloads while
\* post_order of the second thread, started during it, has appended two
C28_Witness ==
    /\ last.op = "overlap"
    /\ calls[1].op = "in_order" /\ calls[1].pc = "done"
    /\ Len(calls[1].result) = 3
    /\ calls[2].op = "post_order" /\ calls[2].pc # "done"
    /\ Len(calls[2].result) = 2
    /\ calls[2].result # SubSeq(calls[1].result, 1, 2)

\* ---- C29 ----

\* the update of document by thread u has deleted the old record and has not
\* inserted the new one yet
MidUpdate(u, document) ==
    /\ calls[u].op = "update_child"
    /\ calls[u].key = document
    /\ calls[u].pc = "insert"

\* C29: ChildService runs create_child, update_child (search, delete and
\* insert as one step), delete_child, clear_all and get_all_children one at a
\* time, so that no request starts its calls of the tree while an update is
\* between its own, and no get_child finds a document missing that is only
\* in the middle of its update.
C29_SerializedAccess ==
    /\ \A t, u \in Threads : (t # u /\ Running(t)) => ~Running(u)
    /\ (last.op = "get_child" /\ ~last.ret)
           => \A u \in Threads : ~MidUpdate(u, last.key)

\* the part of C29 a client can see
C29_SeenMissing ==
    /\ last.op = "get_child"
    /\ ~last.ret
    /\ \E u \in Threads : MidUpdate(u, last.key) /\ calls[u].data.name = MaxName

\* ---- C30 ----

\* the thread has been given an object by ChildService()
Holds(t) == calls[t].op = "ChildService" /\ calls[t].pc = "done"

\* C30: every call of ChildService(), the first ones included and however the
\* callers interleave, returns the same object; the object returned has its
\* _tree; one AVLTree is made and no more; and what create_child stored
\* through one call get_child finds through every later one, until clear_all.
C30_Singleton ==
    /\ \A t, u \in Threads : (Holds(t) /\ Holds(u)) => calls[t].ret = calls[u].ret
    /\ \A t \in Threads : Holds(t) => TreeOfObject(t) # None
    /\ Len(service.objects) <= 1
    /\ Len(service.trees) <= 1
    /\ last.exc # "AttributeError"
    /\ last.op = "get_child" => last.ret = (shadow[last.key] # NoData)

\* two threads hold different objects, each with a tree of its own, and a
\* document stored through one of them is not in the tree of the other
C30_TwoInstances ==
    /\ Holds(1) /\ Holds(2)
    /\ calls[1].ret # calls[2].ret
    /\ TreeOfObject(1) # None /\ TreeOfObject(2) # None
    /\ TreeOfObject(1) # TreeOfObject(2)
    /\ \E k \in service.trees[TreeOfObject(1)] : k \notin service.trees[TreeOfObject(2)]

====
